---- MODULE Spec2Model ----
(***************************************************************************)
(* Hedge Fund Edge Tracker: the candidate lifecycle state machine, the     *)
(* due-diligence decision matrix, the position monitor and its mechanical  *)
(* exit cascade, modelled from trader.py, position_monitor.py, tracker.py, *)
(* scanner.py and signal_hunter.py.                                        *)
(*                                                                         *)
(* Time is counted in whole hours since Monday 00:00 UTC.  Percentages     *)
(* that the code rounds to two decimals (calculate_pnl) are carried in     *)
(* hundredths of a percent.  Free-text columns (state_reason, narrative,   *)
(* watch_conditions, entry_method ...) and the append-only logs dd_log,    *)
(* price_snapshots, intraday_candles and signal_scans are not represented. *)
(***************************************************************************)
EXTENDS Integers, Sequences, FiniteSets, TLC

VARIABLES
    now,            \* wall clock, hours since Monday 00:00 UTC
    candidates,     \* table candidates: row id -> record
    trader_journal, \* table trader_journal: sequence of rows
    last_cycle,     \* the review (due diligence or monitor cycle) that ran last:
                    \* the row it read, what its calls returned and what it
                    \* returned; Idle when another handler ran last
    entered,        \* history: ids of the rows that have ever been ACTIVE or PUBLISH
    probe           \* one call of a pure function: its arguments and its result

vars == <<now, candidates, trader_journal, last_cycle, entered, probe>>

----------------------------------------------------------------------------
(* Values *)

NULL == -1          \* SQL NULL / Python None in a numeric or timestamp column
NOTEXT == "NULL"    \* SQL NULL in a text column
NonePct == -999999  \* Python None where the code expects a percentage

Falsy(x) == x = NULL \/ x = 0       \* Python "not x" for a number or None

Abs(x) == IF x < 0 THEN -x ELSE x

\* str.upper() on the words the model uses
Upper(w) ==
    IF w = "cut_loss" THEN "CUT_LOSS"
    ELSE IF w = "take_profit" THEN "TAKE_PROFIT"
    ELSE IF w = "trade" THEN "TRADE"
    ELSE w

\* round(n / d) to the nearest integer, ties to even, d > 0
RoundDiv(n, d) ==
    LET q == n \div d
        r == n % d
    IN  IF 2 * r < d THEN q
        ELSE IF 2 * r > d THEN q + 1
        ELSE IF q % 2 = 0 THEN q ELSE q + 1

----------------------------------------------------------------------------
(* Bounds of the model *)

MaxNow == 159           \* the clock stops here (Sunday 15:00 UTC)
MaxJournal == 2         \* journal rows written per candidate before reviews stop
CandIds == {1}          \* row ids the candidates table may hold
TickSteps == {96}       \* hours the clock may advance in one step
StartHour == 2 * 24 + 15    \* Wednesday 15:00 UTC

----------------------------------------------------------------------------
(* config.py *)

MARKET_OPEN_UTC_X2 == 29    \* 14.5 hours, in half hours
MARKET_CLOSE_UTC == 21
MARKET_DAYS == {0, 1, 2, 3, 4}
TRACKING_WINDOW_HOURS == 96
MAX_WATCH_CHECKS == 5
STALENESS_LOW == 6
STALENESS_MEDIUM == 24
STALENESS_HIGH == 48
STALENESS_CRITICAL == 72
PRICE_MOVE_SMALL == 2
PRICE_MOVE_MEDIUM == 5
PRICE_MOVE_LARGE == 10

\* Exit thresholds imported by position_monitor.py from config
EXIT_HARD_STOP_PCT == -15
EXIT_SOFT_STOP_PCT == -8
EXIT_PROFIT_TAKE_PCT == 8
EXIT_PROFIT_STRONG_PCT == 15
EXIT_DRAWDOWN_FROM_PEAK_PCT == 8
EXIT_TIME_LIMIT_HOURS == 72
EXIT_MARKET_CRASH_PCT == -3

\* position_monitor.py
MONITOR_STANDARD_INTERVAL == 4
MONITOR_INTENSIVE_INTERVAL == 2

----------------------------------------------------------------------------
(* Inputs the environment supplies *)

Directions == {"LONG", "SHORT", "MIXED"}
IngestConfidence == {70}
IngestEdge == {"HIGH"}
IngestPropagation == {"IGNITE"}
IngestReportPrice == {100}
IngestStaleness == {3}              \* hours between publication and ingestion
Tickers == {"T", ""}

\* fetch_price_av returns a quote or None; the quotes each caller may see
Prices == {90, 100, 120}            \* in a monitor cycle
DDQuotes == {100}                   \* in due diligence
TrackQuotes == {90, 120}     \* in a tracking pass
PriceData == Prices \cup {NULL}
SpyChanges == {-4, 0}               \* SPY change_pct values
SpyData == SpyChanges \cup {NonePct}    \* NonePct: the fetch failed

DDDecisions == {"TRADE", "WATCH", "KILL", "PUBLISH", "OTHER"}
DDConfidences == {"HIGH", "MEDIUM"}
DDResults == [decision : DDDecisions, confidence : DDConfidences, watch_conditions : {NOTEXT}]
NoDDResult == [decision |-> "NONE", confidence |-> "NONE", watch_conditions |-> NOTEXT]  \* assess_trade gave None or raised

MonitorDecisions == {"HOLD", "ENTER", "TAKE_PROFIT", "CUT_LOSS", "REDUCE",
                     "ESCALATE", "KILL"}
Convictions == {3, 7}
ThesisStatuses == {"intact", "invalidated"}
MonitorResults == [decision : MonitorDecisions, conviction_score : Convictions,
                   thesis_status : ThesisStatuses]
NoMonitorResult == [decision |-> "NONE", conviction_score |-> NULL,
                    thesis_status |-> "NONE"]    \* assess_position gave None
Velocities == {"quiet", "stirring", "propagating", "mainstream"}
ScanHits == {0, 3}                  \* articles of the last 24 hours found by a signal scan
ScanMajor == {0}                    \* how many of them come from a major source

----------------------------------------------------------------------------
(* trader.py: pure helpers *)

is_market_open(dt) ==
    /\ (dt \div 24) % 7 \in MARKET_DAYS
    /\ MARKET_OPEN_UTC_X2 <= 2 * (dt % 24)
    /\ dt % 24 < MARKET_CLOSE_UTC

calculate_staleness(report_published, from_time) == from_time - report_published

staleness_rating(hours) ==
    IF hours < STALENESS_LOW THEN "FRESH"
    ELSE IF hours < STALENESS_MEDIUM THEN "MODERATE"
    ELSE IF hours < STALENESS_HIGH THEN "STALE"
    ELSE IF hours < STALENESS_CRITICAL THEN "VERY_STALE"
    ELSE "CRITICAL"

\* abs(current - report) / report * 100 as the fraction num / den
price_moved_pct(report_price, current_price) ==
    IF Falsy(report_price) \/ Falsy(current_price)
    THEN [num |-> 0, den |-> 1]
    ELSE [num |-> Abs(current_price - report_price) * 100, den |-> report_price]

MoveGT(m, t) == m.num > t * m.den
MoveLT(m, t) == m.num < t * m.den

price_moved_in_thesis_direction(report_price, current_price, direction) ==
    IF Falsy(report_price) \/ Falsy(current_price) THEN FALSE
    ELSE IF direction = "SHORT" THEN current_price < report_price
    ELSE IF direction = "LONG" THEN current_price > report_price
    ELSE FALSE

\* the watch_conditions a branch of the matrix returns, by their "type"
Conditions(b) ==
    IF b \in {"price_recovery", "freshness_check", "propagation_check", "price_check",
              "price_stabilization", "partial_capture", "counter_move", "general"}
    THEN b ELSE NOTEXT

\* (decision, reason, watch_conditions); the reason is kept as the branch taken
Verdict(d, b) == [decision |-> d, branch |-> b, watch_conditions |-> Conditions(b)]

\* Faulty variant of TrustedVerdict: no verdict is trusted
TrustedVerdict_Never(llm_result) == FALSE

\* Faulty variant of TrustedVerdict: a verdict of any confidence is trusted
TrustedVerdict_AnyConfidence(llm_result) == llm_result # NoDDResult

\* Faulty variant of TrustedVerdict: a failed advisory call is followed too
TrustedVerdict_FailureTrusted(llm_result) ==
    llm_result = NoDDResult \/ llm_result.confidence = "HIGH"

\* the "LLM override" test: a verdict is present and its confidence is HIGH
TrustedVerdict(llm_result) ==
    llm_result # NoDDResult /\ llm_result.confidence = "HIGH"

make_trade_decision(candidate, current_price, staleness_hours, llm_result) ==
    LET direction == candidate.direction
        confidence == candidate.confidence_pct
        edge_quality == candidate.edge_quality
        propagation == candidate.propagation
        report_price == candidate.report_price
        move_pct == IF Falsy(report_price) THEN [num |-> 0, den |-> 1]
                    ELSE price_moved_pct(report_price, current_price)
        moved_with_thesis ==
            IF Falsy(report_price) THEN FALSE
            ELSE price_moved_in_thesis_direction(report_price, current_price, direction)
        stale_rating == staleness_rating(staleness_hours)
    IN  IF TrustedVerdict(llm_result)
        THEN [Verdict(Upper(llm_result.decision), "llm_high")
                EXCEPT !.watch_conditions = llm_result.watch_conditions]
        ELSE IF edge_quality = "DECAYING"
                /\ stale_rating \in {"STALE", "VERY_STALE", "CRITICAL"}
        THEN Verdict("KILL", "decaying_stale")
        ELSE IF edge_quality = "DECAYING"
                /\ MoveGT(move_pct, PRICE_MOVE_MEDIUM) /\ moved_with_thesis
        THEN Verdict("KILL", "decaying_captured")
        ELSE IF MoveGT(move_pct, PRICE_MOVE_LARGE) /\ moved_with_thesis
        THEN Verdict("KILL", "edge_captured")
        ELSE IF MoveGT(move_pct, PRICE_MOVE_LARGE) /\ ~moved_with_thesis
        THEN Verdict("WATCH", "price_recovery")
        ELSE IF stale_rating = "CRITICAL"
        THEN IF confidence >= 65 THEN Verdict("WATCH", "freshness_check")
             ELSE Verdict("KILL", "critical_stale")
        ELSE IF stale_rating = "VERY_STALE"
        THEN IF confidence >= 55 /\ propagation = "IGNITE"
             THEN Verdict("WATCH", "propagation_check")
             ELSE IF confidence >= 65 THEN Verdict("WATCH", "price_check")
             ELSE Verdict("KILL", "very_stale")
        ELSE IF stale_rating = "STALE"
        THEN IF MoveLT(move_pct, PRICE_MOVE_SMALL) THEN Verdict("TRADE", "stale_stable")
             ELSE IF MoveLT(move_pct, PRICE_MOVE_MEDIUM)
             THEN Verdict("WATCH", "price_stabilization")
             ELSE IF moved_with_thesis THEN Verdict("WATCH", "partial_capture")
             ELSE Verdict("WATCH", "counter_move")
        ELSE IF MoveLT(move_pct, PRICE_MOVE_MEDIUM)
        THEN Verdict("TRADE", "fresh_stable")
        ELSE IF MoveLT(move_pct, PRICE_MOVE_LARGE)
        THEN Verdict("TRADE", "fresh_partial")
        ELSE Verdict("WATCH", "general")

----------------------------------------------------------------------------
(* The candidates table (db.py) *)

Ids == DOMAIN candidates

NewCandidate(ticker, direction, confidence, edge, propagation, report_price, published, t) ==
    [ primary_ticker |-> ticker, direction |-> direction,
      confidence_pct |-> confidence, edge_quality |-> edge,
      propagation |-> propagation, report_price |-> report_price,
      published_date |-> published,
      state |-> IF ticker = "" THEN "KILLED" ELSE "PENDING",
      is_active |-> IF ticker = "" THEN 0 ELSE 1,
      discovered_at |-> t, tracking_until |-> t + TRACKING_WINDOW_HOURS,
      entry_price |-> NULL, entry_time |-> NULL,
      dd_approved_price |-> NULL, dd_approved_at |-> NULL,
      watch_checks |-> 0,
      killed_at |-> NULL, kill_reason |-> NOTEXT, killed_by |-> NOTEXT,
      exit_price |-> NULL, exit_reason |-> NOTEXT,
      peak_price |-> NULL,
      last_monitor_at |-> NULL, monitor_count |-> 0,
      current_conviction |-> NULL,
      signal_velocity |-> "quiet", signal_hits_24h |-> 0 ]

NoRow == [state |-> "NONE"]

\* op: the handler; cid: the row it reviewed; before: that row as the handler
\* read it; ret: what the handler returned; llm_called: whether it asked the
\* advisory service; warning: whether it passed a soft-stop warning along;
\* price_data, spy_change, result: what fetch_price_av, fetch_spy_change and
\* assess_position returned to a monitor cycle; llm_result: what assess_trade
\* returned to a due-diligence cycle
LC(op, cid, before, ret, llm, warn, price_data, spy_change, result) ==
    [op |-> op, cid |-> cid, before |-> before, ret |-> ret, llm_called |-> llm,
     warning |-> warn, price_data |-> price_data, spy_change |-> spy_change,
     result |-> result, llm_result |-> NoDDResult]

\* a due-diligence cycle
DDCycle(op, cid, before, ret, llm, price_data, llm_result) ==
    [LC(op, cid, before, ret, llm, FALSE, price_data, NonePct, NoMonitorResult)
        EXCEPT !.llm_result = llm_result]

\* no review handler ran last
Idle == LC("none", 0, NoRow, "NONE", FALSE, FALSE, NULL, NonePct, NoMonitorResult)

NoProbe == [fn |-> "none"]

History(cands) ==
    entered \cup {i \in DOMAIN cands : cands[i].state \in {"ACTIVE", "PUBLISH"}}

Init ==
    /\ now = StartHour
    /\ candidates = << >>
    /\ trader_journal = << >>
    /\ last_cycle = Idle
    /\ entered = {}
    /\ probe = NoProbe

Tick ==
    \E d \in TickSteps :
        /\ now + d <= MaxNow
        /\ now' = now + d
        /\ last_cycle' = Idle
        /\ UNCHANGED <<candidates, trader_journal, entered, probe>>

----------------------------------------------------------------------------
(* scanner.py *)

\* the rows check_position_continuity can return for a ticker
ContinuityMatches(ticker) ==
    LET live == {i \in Ids : /\ candidates[i].primary_ticker = ticker
                              /\ candidates[i].is_active = 1
                              /\ candidates[i].state # "EXPIRED"}
    IN  {i \in live : \A j \in live :
            candidates[j].discovered_at <= candidates[i].discovered_at}

\* ingest_report, for one row of the report's decision table
IngestCandidate ==
    \E ticker \in Tickers, direction \in Directions, confidence \in IngestConfidence,
       edge \in IngestEdge, propagation \in IngestPropagation,
       report_price \in IngestReportPrice, staleness \in IngestStaleness :
        LET matches == IF ticker = "" THEN {} ELSE ContinuityMatches(ticker)
            row == NewCandidate(ticker, direction, confidence, edge, propagation,
                                report_price, now - staleness, now)
            insert ==
                /\ Len(candidates) + 1 \in CandIds
                /\ candidates' = Append(candidates, row)
                /\ last_cycle' = Idle
        IN  /\ \/ /\ matches = {}
                  /\ insert
               \/ \E e \in matches :
                    IF candidates[e].direction = direction
                    THEN \* momentum: extend the existing position, insert nothing
                         /\ candidates' = [candidates EXCEPT
                                ![e].tracking_until = now + TRACKING_WINDOW_HOURS]
                         /\ last_cycle' = Idle
                    ELSE \* reversal: noted on the old row, the new row is inserted
                         insert
            /\ entered' = History(candidates')
            /\ UNCHANGED <<now, trader_journal, probe>>

----------------------------------------------------------------------------
(* trader.py: due diligence *)

\* Faulty variant of ApplyDDDecision: PUBLISH enters the position at once
ApplyDDDecision_PublishEnters(cand, verdict, dd_price, t) ==
    IF verdict.decision = "PUBLISH"
    THEN [cand EXCEPT !.state = "PUBLISH",
                      !.entry_price = dd_price,
                      !.entry_time = t]
    ELSE IF verdict.decision = "TRADE"
    THEN [cand EXCEPT !.state = "WATCH",
                      !.dd_approved_price = dd_price,
                      !.dd_approved_at = t]
    ELSE IF verdict.decision = "WATCH"
    THEN [cand EXCEPT !.state = "WATCH",
                      !.watch_checks = cand.watch_checks + 1]
    ELSE IF verdict.decision = "KILL"
    THEN [cand EXCEPT !.state = "KILLED",
                      !.killed_at = t,
                      !.kill_reason = verdict.branch,
                      !.killed_by = "dd"]
    ELSE cand

\* Faulty variant of ApplyDDDecision: an approval enters the position at once
ApplyDDDecision_TradeEnters(cand, verdict, dd_price, t) ==
    IF verdict.decision \in {"TRADE", "PUBLISH"}
    THEN [cand EXCEPT !.state = "ACTIVE",
                      !.entry_price = dd_price,
                      !.entry_time = t,
                      !.dd_approved_price = dd_price,
                      !.dd_approved_at = t]
    ELSE IF verdict.decision = "WATCH"
    THEN [cand EXCEPT !.state = "WATCH",
                      !.watch_checks = cand.watch_checks + 1]
    ELSE IF verdict.decision = "KILL"
    THEN [cand EXCEPT !.state = "KILLED",
                      !.killed_at = t,
                      !.kill_reason = verdict.branch,
                      !.killed_by = "dd"]
    ELSE cand

\* step 6 of run_due_diligence: the UPDATE the decision selects
ApplyDDDecision(cand, verdict, dd_price, t) ==
    IF verdict.decision \in {"TRADE", "PUBLISH"}
    THEN [cand EXCEPT !.state = "WATCH",
                      !.dd_approved_price = dd_price,
                      !.dd_approved_at = t]
    ELSE IF verdict.decision = "WATCH"
    THEN [cand EXCEPT !.state = "WATCH",
                      !.watch_checks = cand.watch_checks + 1]
    ELSE IF verdict.decision = "KILL"
    THEN [cand EXCEPT !.state = "KILLED",
                      !.killed_at = t,
                      !.kill_reason = verdict.branch,
                      !.killed_by = "dd"]
    ELSE cand

\* run_due_diligence(candidate_id): price_data and llm_result are what
\* fetch_price_av and llm_trader.assess_trade return in this call
run_due_diligence(id, price_data, llm_result) ==
    LET cand == candidates[id]
        staleness_hours == calculate_staleness(cand.published_date, now)
        current_price == IF cand.primary_ticker = "" THEN NULL ELSE price_data
        verdict == make_trade_decision(cand, current_price, staleness_hours, llm_result)
        dd_price == IF Falsy(current_price) THEN cand.report_price ELSE current_price
    IN  /\ candidates' = [candidates EXCEPT
                            ![id] = ApplyDDDecision(cand, verdict, dd_price, now)]
        /\ last_cycle' = DDCycle("dd", id, cand, verdict.decision, TRUE, price_data, llm_result)

\* process_pending_candidates, for one row of its PENDING list
ProcessPending ==
    \E id \in Ids, price_data \in DDQuotes \cup {NULL},
       llm_result \in DDResults \cup {NoDDResult} :
        /\ candidates[id].state = "PENDING"
        /\ candidates[id].is_active = 1
        /\ candidates[id].primary_ticker # ""
        /\ IF /\ ~is_market_open(now)
              /\ calculate_staleness(candidates[id].published_date, now) < STALENESS_MEDIUM
           THEN /\ last_cycle' = DDCycle("dd", id, candidates[id], "DEFERRED", FALSE,
                                         NULL, NoDDResult)
                /\ UNCHANGED candidates
           ELSE run_due_diligence(id, price_data, llm_result)
        /\ entered' = History(candidates')
        /\ UNCHANGED <<now, trader_journal, probe>>

\* Faulty variant of MaxChecksKill: the check is counted, the row stays in WATCH
MaxChecksKill_CountsOn(cand, t) ==
    [cand EXCEPT !.watch_checks = cand.watch_checks + 1]

\* the auto-kill UPDATE of recheck_watched
MaxChecksKill(cand, t) ==
    [cand EXCEPT !.state = "KILLED",
                 !.killed_at = t,
                 !.kill_reason = "Max watch checks exceeded",
                 !.killed_by = "auto_expire"]

\* recheck_watched, for one row of its WATCH list
RecheckWatched ==
    \E id \in Ids, price_data \in DDQuotes \cup {NULL},
       llm_result \in DDResults \cup {NoDDResult} :
        /\ candidates[id].state = "WATCH"
        /\ candidates[id].is_active = 1
        /\ IF candidates[id].watch_checks >= MAX_WATCH_CHECKS
           THEN /\ candidates' = [candidates EXCEPT
                                    ![id] = MaxChecksKill(candidates[id], now)]
                /\ last_cycle' = DDCycle("recheck", id, candidates[id], "MAX_CHECKS", FALSE,
                                         NULL, NoDDResult)
           ELSE run_due_diligence(id, price_data, llm_result)
        /\ entered' = History(candidates')
        /\ UNCHANGED <<now, trader_journal, probe>>

----------------------------------------------------------------------------
(* tracker.py *)

\* P&L in hundredths of a percent: round(.. * 100, 2)
calculate_pnl(entry_price, current_price, direction) ==
    IF Falsy(entry_price) \/ Falsy(current_price) THEN NonePct
    ELSE IF direction = "SHORT"
    THEN RoundDiv((entry_price - current_price) * 10000, entry_price)
    ELSE IF direction = "LONG"
    THEN RoundDiv((current_price - entry_price) * 10000, entry_price)
    ELSE NonePct

PnlOrZero(p) == IF p = NonePct \/ p = 0 THEN 0 ELSE p     \* "calculate_pnl(..) or 0"

\* Faulty variant of ExpireRow: every state but KILLED is set to EXPIRED
ExpireRow_AnyState(cand, t) ==
    IF cand.is_active = 1 /\ cand.tracking_until <= t
    THEN [cand EXCEPT !.is_active = 0,
                      !.state = IF cand.state # "KILLED" THEN "EXPIRED" ELSE cand.state]
    ELSE cand

\* Faulty variant of ExpireRow: the row is deactivated and keeps its state
ExpireRow_KeepsState(cand, t) ==
    IF cand.is_active = 1 /\ cand.tracking_until <= t
    THEN [cand EXCEPT !.is_active = 0]
    ELSE cand

\* deactivate_expired: the UPDATE, applied to one row
ExpireRow(cand, t) ==
    IF cand.is_active = 1 /\ cand.tracking_until <= t
    THEN [cand EXCEPT !.is_active = 0,
                      !.state = IF cand.state \in {"PENDING", "WATCH"}
                                THEN "EXPIRED" ELSE cand.state]
    ELSE cand

\* Faulty variant of deactivate_expired: the state is rewritten without the
\* CASE on PENDING / WATCH
deactivate_expired_NoCase(cands, t) ==
    [i \in DOMAIN cands |->
        IF cands[i].is_active = 1 /\ cands[i].tracking_until <= t
        THEN [cands[i] EXCEPT !.is_active = 0, !.state = "EXPIRED"]
        ELSE cands[i]]

deactivate_expired(cands, t) == [i \in DOMAIN cands |-> ExpireRow(cands[i], t)]

\* the peak_price UPDATEs of track_prices for one row (trough_price, which
\* nothing reads, is left out)
UpdateExtrema(c, current_price) ==
    IF c.state \in {"ACTIVE", "PUBLISH"} /\ ~Falsy(c.entry_price)
    THEN LET peak == IF Falsy(c.peak_price) THEN current_price ELSE c.peak_price
         IN  [c EXCEPT !.peak_price = IF current_price > peak \/ Falsy(c.peak_price)
                                      THEN current_price ELSE c.peak_price]
    ELSE c

\* get_active_candidates: the rows track_prices walks
Tracked(cands, id) ==
    /\ cands[id].is_active = 1
    /\ cands[id].tracking_until > now
    /\ cands[id].primary_ticker # ""

\* track_prices: one pass; price_data is the quote fetched for the ticker.
\* A row that should_snapshot skips is left as a failed fetch leaves it.
TrackPrices ==
    \E price_data \in TrackQuotes \cup {NULL} :
        LET live == deactivate_expired(candidates, now)
        IN  /\ candidates' = [id \in Ids |->
                                IF Tracked(live, id) /\ price_data # NULL
                                THEN UpdateExtrema(live[id], price_data)
                                ELSE live[id]]
            /\ last_cycle' = Idle
            /\ entered' = History(candidates')
            /\ UNCHANGED <<now, trader_journal, probe>>

----------------------------------------------------------------------------
(* position_monitor.py *)

JournalOf(id) == SelectSeq(trader_journal, LAMBDA e : e.candidate_id = id)

\* Faulty variant of _get_next_cycle_number: the last number is used again
_get_next_cycle_number_Repeats(id) ==
    LET rows == {JournalOf(id)[i].cycle_number : i \in 1..Len(JournalOf(id))}
    IN  IF rows = {} THEN 1
        ELSE CHOOSE m \in rows : \A x \in rows : x <= m

\* _get_next_cycle_number: MAX(cycle_number) + 1
_get_next_cycle_number(id) ==
    LET rows == {trader_journal[k].cycle_number : k \in
                    {k \in 1..Len(trader_journal) : trader_journal[k].candidate_id = id}}
    IN  IF rows = {} THEN 1
        ELSE (CHOOSE m \in rows : \A x \in rows : x <= m) + 1

should_monitor(candidate) ==
    IF candidate.entry_time = NULL THEN TRUE
    ELSE LET hours_since_entry == now - candidate.entry_time
             first == IF hours_since_entry < 24 THEN MONITOR_INTENSIVE_INTERVAL
                      ELSE MONITOR_STANDARD_INTERVAL
             required_interval ==
                 IF candidate.current_conviction # NULL /\ candidate.current_conviction <= 3
                 THEN MONITOR_INTENSIVE_INTERVAL ELSE first
         IN  IF candidate.last_monitor_at = NULL THEN TRUE
             ELSE now - candidate.last_monitor_at >= required_interval

Exit(raised, should_exit, exit_type, exit_reason, skip_llm, spy_called) ==
    [raised |-> raised, should_exit |-> should_exit, exit_type |-> exit_type,
     exit_reason |-> exit_reason, skip_llm |-> skip_llm, spy_called |-> spy_called]

NoExit(spy_called) == Exit(FALSE, FALSE, NOTEXT, NOTEXT, FALSE, spy_called)

\* check_mechanical_exits; spy_change is what fetch_spy_change returns if called.
\* pnl_pct and the thresholds are compared in hundredths of a percent.
check_mechanical_exits(candidate, current_price, pnl_pct, hours_since_entry, spy_change) ==
    LET direction == candidate.direction
        entry_price == candidate.entry_price
        peak_price == candidate.peak_price
        peak_pnl == IF Falsy(peak_price) THEN pnl_pct
                    ELSE calculate_pnl(entry_price, peak_price, direction)
    IN  IF Falsy(entry_price) \/ Falsy(current_price) THEN NoExit(FALSE)
        ELSE IF pnl_pct <= EXIT_HARD_STOP_PCT * 100
        THEN Exit(FALSE, TRUE, "cut_loss", "HARD STOP", TRUE, FALSE)
        ELSE IF peak_pnl = NonePct
        THEN Exit(TRUE, FALSE, NOTEXT, NOTEXT, FALSE, FALSE)  \* None >= float: TypeError
        ELSE IF /\ peak_pnl >= EXIT_PROFIT_TAKE_PCT * 100
                /\ peak_pnl - pnl_pct >= EXIT_DRAWDOWN_FROM_PEAK_PCT * 100
        THEN Exit(FALSE, TRUE, "take_profit", "PROFIT PROTECTION", TRUE, FALSE)
        ELSE IF pnl_pct >= EXIT_PROFIT_STRONG_PCT * 100
        THEN Exit(FALSE, TRUE, "take_profit", "STRONG PROFIT", TRUE, FALSE)
        ELSE IF /\ direction = "LONG"
                /\ spy_change # NonePct
                /\ spy_change <= EXIT_MARKET_CRASH_PCT
        THEN Exit(FALSE, TRUE, "cut_loss", "MARKET CRASH", TRUE, TRUE)
        ELSE IF hours_since_entry > EXIT_TIME_LIMIT_HOURS /\ pnl_pct < 500
        THEN Exit(FALSE, TRUE, IF pnl_pct < 0 THEN "cut_loss" ELSE "take_profit",
                  "TIME LIMIT", TRUE, direction = "LONG")
        ELSE IF pnl_pct <= EXIT_SOFT_STOP_PCT * 100
        THEN Exit(FALSE, FALSE, NOTEXT, "SOFT STOP WARNING", FALSE, direction = "LONG")
        ELSE NoExit(direction = "LONG")

\* Faulty variant of MechanicalExitRow: exit_type and exit_reason are swapped
MechanicalExitRow_Swapped(cand, current_price, exit_type, exit_reason, t) ==
    [cand EXCEPT !.state = "KILLED",
                 !.killed_at = t,
                 !.kill_reason = exit_type,
                 !.killed_by = "mechanical",
                 !.exit_price = current_price,
                 !.exit_reason = exit_reason]

\* the UPDATE of execute_mechanical_exit
MechanicalExitRow(cand, current_price, exit_type, exit_reason, t) ==
    [cand EXCEPT !.state = "KILLED",
                 !.killed_at = t,
                 !.kill_reason = exit_reason,
                 !.killed_by = "mechanical",
                 !.exit_price = current_price,
                 !.exit_reason = exit_type]

JournalRow(id, cycle_number, conviction_change) ==
    [candidate_id |-> id, cycle_number |-> cycle_number,
     conviction_change |-> conviction_change]

\* Faulty variant of MapWatchDecision: promotion asks for conviction above 7
MapWatchDecision_Above7(decision, conviction, velocity, thesis_status) ==
    IF decision \in {"TAKE_PROFIT", "CUT_LOSS"}
    THEN IF conviction > 7 /\ velocity \in {"propagating", "mainstream"} THEN "ENTER"
         ELSE IF conviction <= 3 \/ thesis_status = "invalidated" THEN "KILL"
         ELSE "HOLD"
    ELSE IF decision = "ENTER" THEN "ENTER"
    ELSE IF decision \in {"REDUCE", "ESCALATE"} THEN "HOLD"
    ELSE decision

\* Faulty variant of MapWatchDecision: promotion on conviction or velocity
MapWatchDecision_Either(decision, conviction, velocity, thesis_status) ==
    IF decision \in {"TAKE_PROFIT", "CUT_LOSS"}
    THEN IF conviction >= 7 \/ velocity \in {"propagating", "mainstream"} THEN "ENTER"
         ELSE IF conviction <= 3 \/ thesis_status = "invalidated" THEN "KILL"
         ELSE "HOLD"
    ELSE IF decision = "ENTER" THEN "ENTER"
    ELSE IF decision \in {"REDUCE", "ESCALATE"} THEN "HOLD"
    ELSE decision

\* Faulty variant of MapWatchDecision: the kill asks for conviction below 3
MapWatchDecision_Below3(decision, conviction, velocity, thesis_status) ==
    IF decision \in {"TAKE_PROFIT", "CUT_LOSS"}
    THEN IF conviction >= 7 /\ velocity \in {"propagating", "mainstream"} THEN "ENTER"
         ELSE IF conviction < 3 \/ thesis_status = "invalidated" THEN "KILL"
         ELSE "HOLD"
    ELSE IF decision = "ENTER" THEN "ENTER"
    ELSE IF decision \in {"REDUCE", "ESCALATE"} THEN "HOLD"
    ELSE decision

\* what a WATCH position makes of the verdict's decision
MapWatchDecision(decision, conviction, velocity, thesis_status) ==
    IF decision \in {"TAKE_PROFIT", "CUT_LOSS"}
    THEN IF conviction >= 7 /\ velocity \in {"propagating", "mainstream"} THEN "ENTER"
         ELSE IF conviction <= 3 \/ thesis_status = "invalidated" THEN "KILL"
         ELSE "HOLD"
    ELSE IF decision = "ENTER" THEN "ENTER"
    ELSE IF decision \in {"REDUCE", "ESCALATE"} THEN "HOLD"
    ELSE decision

\* step 6: monitoring metadata
MonitorMeta(cand, conviction, t) ==
    [cand EXCEPT !.last_monitor_at = t,
                 !.monitor_count = cand.monitor_count + 1,
                 !.current_conviction = conviction]

\* Faulty variant of PounceRow: the pounce publishes the position
PounceRow_Publishes(cand, current_price, t) ==
    [cand EXCEPT !.state = "PUBLISH",
                 !.entry_price = current_price,
                 !.entry_time = t]

\* step 7, ENTER on a WATCH row: the pounce
PounceRow(cand, current_price, t) ==
    [cand EXCEPT !.state = "ACTIVE",
                 !.entry_price = current_price,
                 !.entry_time = t]

\* step 7, KILL on a WATCH row
MonitorKillRow(cand, t) ==
    [cand EXCEPT !.state = "KILLED",
                 !.killed_at = t,
                 !.kill_reason = "KILL",
                 !.killed_by = "monitor"]

\* Faulty variant of AdvisoryExitRow: the exit columns are not written
AdvisoryExitRow_NoExitColumns(cand, decision, current_price, t) ==
    [cand EXCEPT !.state = "KILLED",
                 !.killed_at = t,
                 !.kill_reason = decision,
                 !.killed_by = "monitor"]

\* step 7, TAKE_PROFIT / CUT_LOSS on an ACTIVE or PUBLISH row
AdvisoryExitRow(cand, decision, current_price, t) ==
    [cand EXCEPT !.state = "KILLED",
                 !.killed_at = t,
                 !.kill_reason = decision,
                 !.killed_by = "monitor",
                 !.exit_price = current_price,
                 !.exit_reason = IF decision = "TAKE_PROFIT"
                                 THEN "take_profit" ELSE "cut_loss"]

\* step 7: the UPDATE the decision selects
ApplyMonitorDecision(cand, decision, is_watching, current_price, t) ==
    IF decision = "ENTER" /\ is_watching
    THEN PounceRow(cand, current_price, t)
    ELSE IF decision = "KILL" /\ is_watching
    THEN MonitorKillRow(cand, t)
    ELSE IF decision \in {"TAKE_PROFIT", "CUT_LOSS"} /\ ~is_watching
    THEN AdvisoryExitRow(cand, decision, current_price, t)
    ELSE cand

\* P&L and holding time as monitor_position computes them (step 2)
ReviewPnl(cand, current_price) ==
    IF cand.state = "WATCH"
    THEN PnlOrZero(calculate_pnl(IF Falsy(cand.dd_approved_price) THEN current_price
                                 ELSE cand.dd_approved_price,
                                 current_price, cand.direction))
    ELSE PnlOrZero(calculate_pnl(cand.entry_price, current_price, cand.direction))

HoursSinceEntry(cand) == IF cand.entry_time = NULL THEN 0 ELSE now - cand.entry_time

\* Faulty variant of Cascade: the soft stop forces an exit like checkpoints 1-5
Cascade_SoftStopExits(cand, current_price, spy_change) ==
    IF cand.state # "WATCH" /\ ~Falsy(cand.entry_price)
    THEN LET out == check_mechanical_exits(cand, current_price,
                                           ReviewPnl(cand, current_price),
                                           HoursSinceEntry(cand), spy_change)
         IN  IF out.exit_reason = "SOFT STOP WARNING"
             THEN [out EXCEPT !.should_exit = TRUE, !.exit_type = "cut_loss",
                              !.skip_llm = TRUE]
             ELSE out
    ELSE NoExit(FALSE)

\* step 2.5: the cascade runs for ACTIVE/PUBLISH rows with an entry price
Cascade(cand, current_price, spy_change) ==
    IF cand.state # "WATCH" /\ ~Falsy(cand.entry_price)
    THEN check_mechanical_exits(cand, current_price, ReviewPnl(cand, current_price),
                                HoursSinceEntry(cand), spy_change)
    ELSE NoExit(FALSE)

\* the decision the cycle journals and applies
CycleDecision(cand, result) ==
    IF cand.state = "WATCH"
    THEN MapWatchDecision(result.decision, result.conviction_score,
                          cand.signal_velocity, result.thesis_status)
    ELSE result.decision

\* monitor_position(candidate_id): price_data, spy_change and result are what
\* fetch_price_av, fetch_spy_change and llm_trader.assess_position return when
\* this cycle calls them
monitor_position(id, price_data, spy_change, result) ==
    LET cand == candidates[id]
        is_watching == cand.state = "WATCH"
        current_price == price_data
        cascade == Cascade(cand, current_price, spy_change)
        soft_stop_warning == cascade.exit_reason # NOTEXT /\ ~cascade.skip_llm
        cycle_number == _get_next_cycle_number(id)
        decision == CycleDecision(cand, result)
    IN  IF price_data = NULL
        THEN \* no quote: the cycle is skipped
             /\ last_cycle' = LC("monitor", id, cand, "NONE", FALSE, FALSE, NULL, NonePct,
                                NoMonitorResult)
             /\ UNCHANGED <<candidates, trader_journal>>
        ELSE IF cascade.raised
        THEN \* the cascade raised; run_position_monitoring logs it
             /\ last_cycle' = LC("monitor", id, cand, "ERROR", FALSE, FALSE, price_data,
                                NonePct, NoMonitorResult)
             /\ UNCHANGED <<candidates, trader_journal>>
        ELSE IF cascade.should_exit /\ cascade.skip_llm
        THEN \* execute_mechanical_exit
             /\ candidates' = [candidates EXCEPT ![id] =
                     MechanicalExitRow(cand, current_price, cascade.exit_type,
                                       cascade.exit_reason, now)]
             /\ trader_journal' = Append(trader_journal,
                     JournalRow(id, cycle_number, "mechanical_exit"))
             /\ last_cycle' = LC("monitor", id, cand, Upper(cascade.exit_type), FALSE, FALSE,
                                price_data, spy_change, NoMonitorResult)
        ELSE IF result = NoMonitorResult
        THEN \* the advisory call gave nothing
             /\ last_cycle' = LC("monitor", id, cand, "NONE", TRUE, soft_stop_warning,
                                price_data, spy_change, NoMonitorResult)
             /\ UNCHANGED <<candidates, trader_journal>>
        ELSE /\ candidates' = [candidates EXCEPT ![id] =
                     ApplyMonitorDecision(
                         MonitorMeta(cand, result.conviction_score, now),
                         decision, is_watching, current_price, now)]
             /\ trader_journal' = Append(trader_journal,
                     JournalRow(id, cycle_number, "llm"))
             /\ last_cycle' = LC("monitor", id, cand, decision, TRUE, soft_stop_warning,
                                price_data, spy_change, result)

\* get_monitorable_positions
Monitorable(cand) ==
    /\ cand.state \in {"WATCH", "ACTIVE", "PUBLISH"}
    /\ cand.is_active = 1
    /\ cand.primary_ticker # ""

\* run_position_monitoring, for one row of its list.  The benchmark is
\* fetched only for a LONG row and the advisory service is asked only when
\* the cascade forces no exit; fetch_spy_change's 30-minute cache repeats a
\* value an earlier fetch returned, so its result ranges over SpyData.
MonitorPosition ==
    \E id \in Ids, price_data \in PriceData :
        /\ Monitorable(candidates[id])
        /\ should_monitor(candidates[id])
        /\ Len(JournalOf(id)) < MaxJournal
        /\ \E spy_change \in IF price_data # NULL /\ candidates[id].direction = "LONG"
                                /\ candidates[id].state # "WATCH"
                             THEN SpyData ELSE {NonePct} :
            \E result \in IF price_data = NULL
                             \/ Cascade(candidates[id], price_data, spy_change).raised
                             \/ Cascade(candidates[id], price_data, spy_change).should_exit
                          THEN {NoMonitorResult}
                          ELSE MonitorResults \cup {NoMonitorResult} :
                monitor_position(id, price_data, spy_change, result)
        /\ entered' = History(candidates')
        /\ UNCHANGED <<now, probe>>

----------------------------------------------------------------------------
(* signal_hunter.py *)

\* Faulty variant of compute_velocity: mainstream at exactly six articles only
compute_velocity_ExactlySix(total, major_count) ==
    IF total = 0 THEN "quiet"
    ELSE IF total = 6 \/ major_count >= 2 THEN "mainstream"
    ELSE IF total >= 3 \/ major_count >= 1 THEN "propagating"
    ELSE "stirring"

\* Faulty variant of compute_velocity: major sources are not looked at
compute_velocity_MajorIgnored(total, major_count) ==
    IF total = 0 THEN "quiet"
    ELSE IF total >= 6 THEN "mainstream"
    ELSE IF total >= 3 THEN "propagating"
    ELSE "stirring"

\* compute_velocity over total articles and how many come from a major source
compute_velocity(total, major_count) ==
    IF total = 0 THEN "quiet"
    ELSE IF total >= 6 \/ major_count >= 2 THEN "mainstream"
    ELSE IF total >= 3 \/ major_count >= 1 THEN "propagating"
    ELSE IF total >= 1 THEN "stirring"
    ELSE "quiet"

\* scan_position + update_candidate_velocity for one row of get_scannable_positions
SignalScan ==
    \E id \in Ids, total \in ScanHits, major_count \in ScanMajor :
        /\ major_count <= total
        /\ candidates[id].state \in {"WATCH", "ACTIVE", "PUBLISH"}
        /\ candidates[id].is_active = 1
        /\ candidates[id].primary_ticker # ""
        /\ candidates' = [candidates EXCEPT
                ![id].signal_velocity = compute_velocity(total, major_count),
                ![id].signal_hits_24h = total]
        /\ last_cycle' = Idle
        /\ entered' = History(candidates')
        /\ UNCHANGED <<now, trader_journal, probe>>

----------------------------------------------------------------------------

Next ==
    \/ Tick
    \/ IngestCandidate
    \/ ProcessPending
    \/ RecheckWatched
    \/ TrackPrices
    \/ MonitorPosition
    \/ SignalScan

Spec == Init /\ [][Next]_vars

----------------------------------------------------------------------------
(* One call of check_mechanical_exits on arbitrary arguments: the position  *)
(* was entered at ExitEntryPrice, pnl_pct is in hundredths of a percent.    *)

ExitEntryPrice == 100
ExitPeakPrices == {NULL, 80, 92, 100, 108, 120}
ExitPnls == {-1600, -1500, -900, -800, 0, 499, 500, 700, 1500}
ExitHours == {72, 73}
ExitSpy == {NonePct, -4, -3, 0}
ExitArgs == [direction : Directions, peak_price : ExitPeakPrices, pnl_pct : ExitPnls,
             hours_since_entry : ExitHours, spy_change : ExitSpy]

\* the candidate row handed to check_mechanical_exits
ExitCandidate(a) ==
    [NewCandidate("T", a.direction, 70, "HIGH", "IGNITE", ExitEntryPrice, 0, 0)
        EXCEPT !.state = "ACTIVE",
               !.entry_price = ExitEntryPrice,
               !.entry_time = 0,
               !.peak_price = a.peak_price]

InitExits ==
    /\ now = StartHour
    /\ candidates = << >>
    /\ trader_journal = << >>
    /\ last_cycle = Idle
    /\ entered = {}
    /\ probe \in {[fn |-> "check_mechanical_exits", args |-> a, done |-> FALSE,
                   out |-> NoExit(FALSE)] : a \in ExitArgs}

CallExits ==
    /\ probe.fn = "check_mechanical_exits"
    /\ ~probe.done
    /\ probe' = [probe EXCEPT
            !.done = TRUE,
            !.out = check_mechanical_exits(ExitCandidate(probe.args), ExitEntryPrice,
                                           probe.args.pnl_pct,
                                           probe.args.hours_since_entry,
                                           probe.args.spy_change)]
    /\ UNCHANGED <<now, candidates, trader_journal, last_cycle, entered>>

SpecExits == InitExits /\ [][CallExits]_vars

----------------------------------------------------------------------------
(* compute_velocity on two article lists of the last 24 hours with the same *)
(* number of major-source articles: total articles in the first, more in    *)
(* the second, which is at least as long.                                   *)

MaxHits == 8
VelocityArgs ==
    {a \in [total : 0..MaxHits, major_count : 0..MaxHits, more : 0..MaxHits] :
        a.major_count <= a.total /\ a.total <= a.more}

InitVelocity ==
    /\ now = StartHour
    /\ candidates = << >>
    /\ trader_journal = << >>
    /\ last_cycle = Idle
    /\ entered = {}
    /\ probe \in {[fn |-> "compute_velocity", args |-> a, done |-> FALSE,
                   out |-> [velocity |-> "quiet", velocity_more |-> "quiet"]] :
                        a \in VelocityArgs}

CallVelocity ==
    /\ probe.fn = "compute_velocity"
    /\ ~probe.done
    /\ probe' = [probe EXCEPT
            !.done = TRUE,
            !.out = [velocity |-> compute_velocity(probe.args.total,
                                                   probe.args.major_count),
                     velocity_more |-> compute_velocity(probe.args.more,
                                                        probe.args.major_count)]]
    /\ UNCHANGED <<now, candidates, trader_journal, last_cycle, entered>>

SpecVelocity == InitVelocity /\ [][CallVelocity]_vars

----------------------------------------------------------------------------
(* One call of make_trade_decision on arbitrary arguments: a candidate      *)
(* whose report quoted DecisionReportPrices (0: no quote in the report), a  *)
(* current price, the staleness in hours and the verdict of assess_trade.   *)

DecisionConfidences == {54, 55, 64, 65}
DecisionEdges == {"HIGH", "DECAYING"}
DecisionPropagations == {"IGNITE", "CATALYTIC"}
DecisionReportPrices == {0, 100}
DecisionPrices == {NULL, 89, 90, 94, 95, 97, 98, 100, 106, 110, 111}
DecisionStaleness == {5, 23, 24, 47, 48, 71, 72}
DecisionVerdicts ==
    [decision : {"KILL", "trade"}, confidence : {"HIGH", "MEDIUM", "LOW"},
     watch_conditions : {NOTEXT, "llm_condition"}] \cup {NoDDResult}
DecisionArgs == [direction : Directions, confidence : DecisionConfidences,
                 edge_quality : DecisionEdges, propagation : DecisionPropagations,
                 report_price : DecisionReportPrices, current_price : DecisionPrices,
                 staleness_hours : DecisionStaleness, llm_result : DecisionVerdicts]

\* the candidate row handed to make_trade_decision
DecisionCandidate(a) ==
    NewCandidate("T", a.direction, a.confidence, a.edge_quality, a.propagation,
                 a.report_price, 0, 0)

InitDecision ==
    /\ now = StartHour
    /\ candidates = << >>
    /\ trader_journal = << >>
    /\ last_cycle = Idle
    /\ entered = {}
    /\ probe \in {[fn |-> "make_trade_decision", args |-> a, done |-> FALSE,
                   out |-> Verdict("NONE", "none")] : a \in DecisionArgs}

CallDecision ==
    /\ probe.fn = "make_trade_decision"
    /\ ~probe.done
    /\ probe' = [probe EXCEPT
            !.done = TRUE,
            !.out = make_trade_decision(DecisionCandidate(probe.args),
                                        probe.args.current_price,
                                        probe.args.staleness_hours,
                                        probe.args.llm_result)]
    /\ UNCHANGED <<now, candidates, trader_journal, last_cycle, entered>>

SpecDecision == InitDecision /\ [][CallDecision]_vars

----------------------------------------------------------------------------
(* Reviews of a position some hours after its entry.  The row is the one    *)
(* ingestion, an approving due diligence and a pounce at StartHour leave;   *)
(* the clock stands ReviewDelays hours later; the tracker and the monitor   *)
(* run from there.                                                          *)

ReviewDelays == {1, 3, 48}

\* the row after ingest_report, run_due_diligence (TRADE) and the pounce
EnteredRow(direction, price, conviction) ==
    LET ingested == NewCandidate("T", direction, 70, "HIGH", "IGNITE", 100,
                                 StartHour - 3, StartHour)
        watched == ApplyDDDecision(ingested, Verdict("TRADE", "fresh"), 100, StartHour)
    IN  PounceRow(MonitorMeta(watched, conviction, StartHour), price, StartHour)

InitReview ==
    /\ now \in {StartHour + d : d \in ReviewDelays}
    /\ candidates \in {<<EnteredRow(direction, price, conviction)>> :
                            direction \in Directions, price \in Prices,
                            conviction \in Convictions}
    /\ trader_journal = <<JournalRow(1, 1, "llm")>>
    /\ last_cycle = Idle
    /\ entered = {1}
    /\ probe = NoProbe

NextReview ==
    \/ TrackPrices
    \/ MonitorPosition

SpecReview == InitReview /\ [][NextReview]_vars

----------------------------------------------------------------------------
(* One iteration of the scheduler loop of run() in which the due-diligence,  *)
(* signal and monitoring blocks are due, over a table of two rows.  probe    *)
(* holds the position in the iteration: pc is the pass running, todo the     *)
(* rows its SELECT returned that are still to come, ran the passes started,  *)
(* selected the (pass, row) pairs the SELECTs returned, seen the pairs whose *)
(* cycle began, raised the pairs whose cycle raised.  A cycle raises when a  *)
(* database call in it does (sqlite3.Error), before any write.               *)

LoopKinds == {"PENDING", "WATCH", "ACTIVE"}
LoopPasses == {"pending", "recheck", "monitor"}
LoopHour == StartHour + 1
LoopVerdicts ==
    {NoDDResult, [decision |-> "KILL", confidence |-> "HIGH", watch_conditions |-> NOTEXT],
     [decision |-> "WATCH", confidence |-> "HIGH", watch_conditions |-> NOTEXT]}
LoopResults ==
    {NoMonitorResult,
     [decision |-> "HOLD", conviction_score |-> 7, thesis_status |-> "intact"]}

\* a row in the given state at LoopHour
LoopRow(kind, direction) ==
    LET ingested == NewCandidate("T", direction, 70, "HIGH", "IGNITE", 100,
                                 StartHour - 3, StartHour)
    IN  IF kind = "PENDING" THEN ingested
        ELSE IF kind = "WATCH"
        THEN ApplyDDDecision(ingested, Verdict("TRADE", "fresh"), 100, StartHour)
        ELSE EnteredRow(direction, 100, 7)

\* the rows of a SELECT, in rowid order
SortedIds(S) ==
    [k \in 1..Cardinality(S) |->
        CHOOSE i \in S : Cardinality({j \in S : j < i}) = k - 1]

LoopState(pc, todo, ran, selected, seen, raised) ==
    [fn |-> "run", pc |-> pc, todo |-> todo, ran |-> ran, selected |-> selected,
     seen |-> seen, raised |-> raised]

\* a pass starts: its SELECT returns the rows S
StartPass(pass, S) ==
    LoopState(pass, SortedIds(S), probe.ran \cup {pass},
              probe.selected \cup {<<pass, i>> : i \in S}, probe.seen, probe.raised)

\* the cycle of the first row of todo ends and the pass goes on
NextRow(raises) ==
    LET pair == <<probe.pc, Head(probe.todo)>>
    IN  LoopState(probe.pc, Tail(probe.todo), probe.ran, probe.selected,
                  probe.seen \cup {pair},
                  IF raises THEN probe.raised \cup {pair} ELSE probe.raised)

\* the cycle of the first row of todo raises and the exception leaves the
\* pass and the try block of run() around it
AbortBlock(next_pc) ==
    LET pair == <<probe.pc, Head(probe.todo)>>
    IN  LoopState(next_pc, << >>, probe.ran, probe.selected,
                  probe.seen \cup {pair}, probe.raised \cup {pair})

PendingRows ==
    {i \in Ids : /\ candidates[i].state = "PENDING"
                 /\ candidates[i].is_active = 1
                 /\ candidates[i].primary_ticker # ""}

WatchedRows ==
    {i \in Ids : candidates[i].state = "WATCH" /\ candidates[i].is_active = 1}

InitLoop ==
    /\ now = LoopHour
    /\ candidates \in {<<LoopRow(k1, "LONG"), LoopRow(k2, "SHORT")>> :
                            k1 \in LoopKinds, k2 \in LoopKinds}
    /\ trader_journal =
            (IF candidates[1].state = "ACTIVE" THEN <<JournalRow(1, 1, "llm")>> ELSE << >>)
            \o (IF candidates[2].state = "ACTIVE" THEN <<JournalRow(2, 1, "llm")>> ELSE << >>)
    /\ last_cycle = Idle
    /\ entered = {i \in Ids : candidates[i].state = "ACTIVE"}
    /\ probe = LoopState("pending", SortedIds(PendingRows), {"pending"},
                         {<<"pending", i>> : i \in PendingRows}, {}, {})

\* process_pending_candidates: one turn of 'for p in pending'
LoopPendingStep ==
    /\ probe.pc = "pending" /\ probe.todo # << >>
    /\ LET id == Head(probe.todo)
       IN  \E raises \in BOOLEAN, price_data \in DDQuotes \cup {NULL},
              llm_result \in LoopVerdicts :
            IF /\ ~is_market_open(now)
               /\ calculate_staleness(candidates[id].published_date, now) < STALENESS_MEDIUM
            THEN /\ last_cycle' = DDCycle("dd", id, candidates[id], "DEFERRED", FALSE,
                                          NULL, NoDDResult)
                 /\ probe' = NextRow(FALSE)
                 /\ UNCHANGED candidates
            ELSE IF raises
            THEN /\ last_cycle' = DDCycle("dd", id, candidates[id], "ERROR", FALSE,
                                          NULL, NoDDResult)
                 /\ probe' = AbortBlock("signal")
                 /\ UNCHANGED candidates
            ELSE /\ run_due_diligence(id, price_data, llm_result)
                 /\ probe' = NextRow(FALSE)
    /\ entered' = History(candidates')
    /\ UNCHANGED <<now, trader_journal>>

\* process_pending_candidates returns and recheck_watched runs its SELECT
LoopPendingDone ==
    /\ probe.pc = "pending" /\ probe.todo = << >>
    /\ probe' = StartPass("recheck", WatchedRows)
    /\ UNCHANGED <<now, candidates, trader_journal, last_cycle, entered>>

\* recheck_watched: one turn of 'for w in watched'
LoopRecheckStep ==
    /\ probe.pc = "recheck" /\ probe.todo # << >>
    /\ LET id == Head(probe.todo)
       IN  \E raises \in BOOLEAN, price_data \in DDQuotes \cup {NULL},
              llm_result \in LoopVerdicts :
            IF raises
            THEN /\ last_cycle' = DDCycle("recheck", id, candidates[id], "ERROR", FALSE,
                                          NULL, NoDDResult)
                 /\ probe' = AbortBlock("signal")
                 /\ UNCHANGED candidates
            ELSE IF candidates[id].watch_checks >= MAX_WATCH_CHECKS
            THEN /\ candidates' = [candidates EXCEPT
                                     ![id] = MaxChecksKill(candidates[id], now)]
                 /\ last_cycle' = DDCycle("recheck", id, candidates[id], "MAX_CHECKS",
                                          FALSE, NULL, NoDDResult)
                 /\ probe' = NextRow(FALSE)
            ELSE /\ run_due_diligence(id, price_data, llm_result)
                 /\ probe' = NextRow(FALSE)
    /\ entered' = History(candidates')
    /\ UNCHANGED <<now, trader_journal>>

\* recheck_watched returns; the due-diligence block of run() is over
LoopRecheckDone ==
    /\ probe.pc = "recheck" /\ probe.todo = << >>
    /\ probe' = LoopState("signal", << >>, probe.ran, probe.selected, probe.seen,
                          probe.raised)
    /\ UNCHANGED <<now, candidates, trader_journal, last_cycle, entered>>

\* the signal block of run(): run_signal_scan over its rows; then
\* run_position_monitoring reads get_monitorable_positions
LoopSignalScan ==
    /\ probe.pc = "signal"
    /\ \E total \in [Ids -> ScanHits] :
        /\ candidates' = [i \in Ids |->
                IF Monitorable(candidates[i])
                THEN [candidates[i] EXCEPT
                        !.signal_velocity = compute_velocity(total[i], 0),
                        !.signal_hits_24h = total[i]]
                ELSE candidates[i]]
        /\ probe' = StartPass("monitor", {i \in Ids : Monitorable(candidates[i])})
    /\ last_cycle' = Idle
    /\ entered' = History(candidates')
    /\ UNCHANGED <<now, trader_journal>>

\* run_position_monitoring: one turn of 'for pos in positions'
LoopMonitorStep ==
    /\ probe.pc = "monitor" /\ probe.todo # << >>
    /\ LET id == Head(probe.todo)
       IN  IF ~should_monitor(candidates[id])
           THEN /\ probe' = NextRow(FALSE)
                /\ last_cycle' = Idle
                /\ UNCHANGED <<candidates, trader_journal>>
           ELSE \E raises \in BOOLEAN, price_data \in DDQuotes \cup {NULL} :
                 \E spy_change \in IF price_data # NULL /\ candidates[id].direction = "LONG"
                                       /\ candidates[id].state # "WATCH"
                                    THEN SpyData ELSE {NonePct} :
                  \E result \in IF price_data = NULL
                                    \/ Cascade(candidates[id], price_data, spy_change).raised
                                    \/ Cascade(candidates[id], price_data, spy_change).should_exit
                                 THEN {NoMonitorResult}
                                 ELSE LoopResults :
                    IF raises
                    THEN \* caught by the try around monitor_position
                         /\ last_cycle' = LC("monitor", id, candidates[id], "ERROR", FALSE,
                                             FALSE, NULL, NonePct, NoMonitorResult)
                         /\ probe' = NextRow(TRUE)
                         /\ UNCHANGED <<candidates, trader_journal>>
                    ELSE /\ monitor_position(id, price_data, spy_change, result)
                         /\ probe' = NextRow(FALSE)
    /\ entered' = History(candidates')
    /\ UNCHANGED now

\* run_position_monitoring returns; the iteration is over
LoopMonitorDone ==
    /\ probe.pc = "monitor" /\ probe.todo = << >>
    /\ probe' = LoopState("done", << >>, probe.ran, probe.selected, probe.seen,
                          probe.raised)
    /\ UNCHANGED <<now, candidates, trader_journal, last_cycle, entered>>

NextLoop ==
    \/ LoopPendingStep
    \/ LoopPendingDone
    \/ LoopRecheckStep
    \/ LoopRecheckDone
    \/ LoopSignalScan
    \/ LoopMonitorStep
    \/ LoopMonitorDone

SpecLoop == InitLoop /\ [][NextLoop]_vars

----------------------------------------------------------------------------
(* trading_rules.py.  A position is the record parse_position builds; None  *)
(* is NOTEXT for text, NULL for a number and NonePct for a P&L; P&L is in   *)
(* tenths of a percent.                                                     *)

SEMI_TICKERS ==
    {"TSM", "ASML", "NVDA", "QCOM", "INTC", "AMD", "MU", "AMAT", "NVTS", "AEHR", "SMH",
     "SOXX", "VECO", "TSEM", "ATOM", "LRCX", "KLAC", "MRVL", "AVGO", "TXN", "SSNLF",
     "GILT", "USAR"}

Rule(id, action, certainty) == [id |-> id, action |-> action, certainty |-> certainty]

RULES ==
    << Rule("R1", "ALWAYS_TRADE", "TRADING_CERTAINTY"),
       Rule("R2", "ALWAYS_TRADE", "TRADING_CERTAINTY"),
       Rule("R3", "TRADE_IF_CONFIRMED", "HIGH_PROBABILITY"),
       Rule("R4", "TRADE_IF_CONFIRMED", "HIGH_PROBABILITY"),
       Rule("R5", "TRADE_IF_CONFIRMED", "HIGH_PROBABILITY"),
       Rule("R6", "TRADE_IF_CONFIRMED", "CONDITIONAL"),
       Rule("R7", "NEVER_TRADE", "AVOID"),
       Rule("R8", "NEVER_TRADE", "AVOID") >>

\* classify_position's "no rule": None
NoRule == Rule("NONE", "UNKNOWN", "UNCLASSIFIED")

\* "(p.get(key) or 0)"
NumberOrZero(x) == IF x = NULL THEN 0 ELSE x

\* rule["test"](p) of the rule with this id
RuleTest(id, p) ==
    IF id = "R1"
    THEN p.direction = "LONG" /\ p.band = "A" /\ p.ticker \in SEMI_TICKERS
    ELSE IF id = "R2"
    THEN p.direction = "LONG" /\ p.band = "A"
    ELSE IF id = "R3"
    THEN /\ p.direction = "LONG"
         /\ p.ticker \in SEMI_TICKERS
         /\ NumberOrZero(p.confidence) >= 50
    ELSE IF id = "R4"
    THEN /\ p.direction = "LONG"
         /\ p.band = "B"
         /\ \E k \in DOMAIN p.dd_decisions : p.dd_decisions[k] = "TRADE"
    ELSE IF id = "R5"
    THEN p.direction = "SHORT" /\ p.band = "A" /\ NumberOrZero(p.confidence) >= 70
    ELSE IF id = "R6"
    THEN /\ p.direction = "LONG"
         /\ p.band \in {"B", "C"}
         /\ p.signal_velocity \in {"stirring", "propagating", "mainstream"}
    ELSE IF id = "R7"
    THEN p.direction = "SHORT" /\ p.band # "A"
    ELSE IF id = "R8"
    THEN /\ p.band \in {"C", "D", "E"}
         /\ p.signal_velocity \in {NOTEXT, "quiet"}
         /\ NumberOrZero(p.signal_hits) = 0
    ELSE FALSE

\* 'for rule in RULES' from the i-th rule on: the index of the rule returned,
\* 0 when the loop ends without a match
RECURSIVE FirstMatchFrom(_, _)
FirstMatchFrom(pos, i) ==
    IF i > Len(RULES) THEN 0
    ELSE IF RuleTest(RULES[i].id, pos) THEN i
    ELSE FirstMatchFrom(pos, i + 1)

\* Faulty variant of classify_position: the last matching rule wins
classify_position_LastMatch(pos) ==
    LET hits == {i \in 1..Len(RULES) : RuleTest(RULES[i].id, pos)}
        last == CHOOSE i \in hits : \A j \in hits : j <= i
    IN  IF hits = {} THEN [rule |-> NoRule, certainty |-> "UNCLASSIFIED"]
        ELSE [rule |-> RULES[last], certainty |-> RULES[last].certainty]

\* classify_position: (rule, certainty_bucket)
classify_position(pos) ==
    LET i == FirstMatchFrom(pos, 1)
    IN  IF i = 0 THEN [rule |-> NoRule, certainty |-> "UNCLASSIFIED"]
        ELSE [rule |-> RULES[i], certainty |-> RULES[i].certainty]

----------------------------------------------------------------------------
(* classify_position called twice on one position of any shape *)

ClassifyPositions ==
    [direction : {"LONG", "SHORT", NOTEXT}, band : {"A", "B", "C", NOTEXT},
     ticker : {"NVDA", "XOM"}, confidence : {NULL, 45, 50, 70},
     dd_decisions : {<< >>, <<"WATCH", "TRADE">>},
     signal_velocity : {NOTEXT, "quiet", "stirring"}, signal_hits : {NULL, 0, 2}]

InitClassify ==
    /\ now = StartHour
    /\ candidates = << >>
    /\ trader_journal = << >>
    /\ last_cycle = Idle
    /\ entered = {}
    /\ probe \in {[fn |-> "classify_position", args |-> a, out |-> << >>] :
                        a \in ClassifyPositions}

CallClassify ==
    /\ probe.fn = "classify_position"
    /\ Len(probe.out) < 2
    /\ probe' = [probe EXCEPT !.out = Append(probe.out, classify_position(probe.args))]
    /\ UNCHANGED <<now, candidates, trader_journal, last_cycle, entered>>

SpecClassify == InitClassify /\ [][CallClassify]_vars

----------------------------------------------------------------------------
(* main() of trading_rules.py over a history of HistoryLen positions:       *)
(* classify_all, validate_rules and the rewritten portfolio.                *)

HistoryLen == 3
HistoryPnls == {NonePct, 0, -50, 20, 30}    \* report_pnl
HistoryMoves == {NonePct, 30}               \* tracked_move_pct

\* the fields the rules read, for positions that R1, R2, R3, R7 and no rule match
HistoryShapes ==
    { [direction |-> "LONG", band |-> "A", ticker |-> "NVDA", confidence |-> 70,
       dd_decisions |-> << >>, signal_velocity |-> "quiet", signal_hits |-> 0],
      [direction |-> "LONG", band |-> "A", ticker |-> "XOM", confidence |-> 70,
       dd_decisions |-> << >>, signal_velocity |-> "quiet", signal_hits |-> 0],
      [direction |-> "LONG", band |-> "B", ticker |-> "NVDA", confidence |-> 50,
       dd_decisions |-> << >>, signal_velocity |-> "quiet", signal_hits |-> 0],
      [direction |-> "SHORT", band |-> "B", ticker |-> "XOM", confidence |-> 50,
       dd_decisions |-> << >>, signal_velocity |-> "quiet", signal_hits |-> 0],
      [direction |-> "LONG", band |-> "B", ticker |-> "XOM", confidence |-> 50,
       dd_decisions |-> << >>, signal_velocity |-> "quiet", signal_hits |-> 0] }

HistoryPosition(shape, report_pnl, tracked_move_pct) ==
    shape @@ [report_pnl |-> report_pnl, tracked_move_pct |-> tracked_move_pct]

HistoryPositions ==
    {HistoryPosition(sh, r, t) : sh \in HistoryShapes, r \in HistoryPnls, t \in HistoryMoves}

\* "x or y" on P&L values: None and 0 are false
PnlOr(x, y) == IF x = NonePct \/ x = 0 THEN y ELSE x

\* the fields classify_all adds to one position
ClassifiedRow(pos) ==
    LET res == classify_position(pos)
        rule == res.rule
        traded == rule # NoRule /\ rule.action \in {"ALWAYS_TRADE", "TRADE_IF_CONFIRMED"}
    IN  pos @@ [matched_rule |-> IF rule = NoRule THEN NOTEXT ELSE rule.id,
                certainty_bucket |-> res.certainty,
                rule_action |-> rule.action,
                rewritten_pnl |-> IF traded
                                  THEN PnlOr(pos.report_pnl, PnlOr(pos.tracked_move_pct, 0))
                                  ELSE 0,
                rewritten_traded |-> traded]

classify_all(positions) == [k \in DOMAIN positions |-> ClassifiedRow(positions[k])]

RECURSIVE SumSeq(_)
SumSeq(seq) == IF seq = << >> THEN 0 ELSE Head(seq) + SumSeq(Tail(seq))

\* rule_groups[rule_id] of validate_rules
RuleGroup(positions, rule_id) ==
    SelectSeq(positions, LAMBDA q : /\ q.certainty_bucket = "TRADING_CERTAINTY"
                                   /\ q.matched_rule = rule_id
                                   /\ q.report_pnl # NonePct
                                   /\ q.report_pnl # 0)

GroupPnls(group) == [k \in DOMAIN group |-> group[k].report_pnl]

\* Faulty variant of validate_rules: a rule with any losing trade is reported
validate_rules_AnyLoss(positions) ==
    LET ids == {positions[k].matched_rule : k \in DOMAIN positions}
    IN  {[rule |-> r, positions |-> Len(RuleGroup(positions, r)),
          total_pnl |-> SumSeq(GroupPnls(RuleGroup(positions, r))),
          losses |-> Len(SelectSeq(RuleGroup(positions, r), LAMBDA q : q.report_pnl < 0))] :
            r \in {x \in ids : \E k \in DOMAIN RuleGroup(positions, x) :
                                    RuleGroup(positions, x)[k].report_pnl < 0}}

\* validate_rules: the violations, one per rule whose group is net negative
validate_rules(positions) ==
    LET ids == {positions[k].matched_rule : k \in DOMAIN positions}
    IN  {[rule |-> r, positions |-> Len(RuleGroup(positions, r)),
          total_pnl |-> SumSeq(GroupPnls(RuleGroup(positions, r))),
          losses |-> Len(SelectSeq(RuleGroup(positions, r), LAMBDA q : q.report_pnl < 0))] :
            r \in {x \in ids : /\ RuleGroup(positions, x) # << >>
                                /\ SumSeq(GroupPnls(RuleGroup(positions, x))) < 0}}

\* the "REWRITTEN PORTFOLIO" figures of main: the win rate and the average
\* per trade are wins / traded and total_pnl / traded
Portfolio(positions) ==
    LET traded == SelectSeq(positions, LAMBDA q : q.rewritten_traded)
    IN  [traded |-> Len(traded),
         total_pnl |-> SumSeq([k \in DOMAIN traded |-> traded[k].rewritten_pnl]),
         wins |-> Len(SelectSeq(traded, LAMBDA q : q.rewritten_pnl > 0))]

InitRewrite ==
    /\ now = StartHour
    /\ candidates = << >>
    /\ trader_journal = << >>
    /\ last_cycle = Idle
    /\ entered = {}
    /\ probe \in {[fn |-> "main", args |-> a, done |-> FALSE, raised |-> FALSE,
                   outcome |-> "none", positions |-> << >>, violations |-> {},
                   portfolio |-> Portfolio(<< >>)] :
                        a \in [1..HistoryLen -> HistoryPositions]}

\* main in --validate mode: with a violation to print, v["ticker"] raises
\* KeyError and main ends before the rewritten portfolio and the validation
\* verdict
CallRewrite ==
    /\ probe.fn = "main"
    /\ ~probe.done
    /\ LET positions == classify_all(probe.args)
           violations == validate_rules(positions)
       IN  probe' = [probe EXCEPT !.done = TRUE,
                                  !.raised = violations # {},
                                  !.outcome = IF violations # {} THEN "KeyError"
                                              ELSE IF violations # {}
                                              THEN "VALIDATION FAILED"
                                              ELSE "VALIDATION PASSED",
                                  !.positions = positions,
                                  !.violations = violations,
                                  !.portfolio = IF violations # {} THEN probe.portfolio
                                                ELSE Portfolio(positions)]
    /\ UNCHANGED <<now, candidates, trader_journal, last_cycle, entered>>

SpecRewrite == InitRewrite /\ [][CallRewrite]_vars

----------------------------------------------------------------------------
(* The six checkpoints as section 4.4 of the specification states them *)

\* P&L at the recorded peak price; the current P&L when no peak is recorded
ClaimedPeakPnl(a) ==
    IF Falsy(a.peak_price) THEN a.pnl_pct
    ELSE PnlOrZero(calculate_pnl(ExitEntryPrice, a.peak_price, a.direction))

CheckpointHolds(k, a) ==
    IF k = 1 THEN a.pnl_pct <= EXIT_HARD_STOP_PCT * 100
    ELSE IF k = 2 THEN /\ ClaimedPeakPnl(a) >= EXIT_PROFIT_TAKE_PCT * 100
                       /\ ClaimedPeakPnl(a) - a.pnl_pct >= EXIT_DRAWDOWN_FROM_PEAK_PCT * 100
    ELSE IF k = 3 THEN a.pnl_pct >= EXIT_PROFIT_STRONG_PCT * 100
    ELSE IF k = 4 THEN /\ a.direction = "LONG"
                       /\ a.spy_change # NonePct
                       /\ a.spy_change <= EXIT_MARKET_CRASH_PCT
    ELSE IF k = 5 THEN /\ a.hours_since_entry > EXIT_TIME_LIMIT_HOURS
                       /\ a.pnl_pct < 500
    ELSE a.pnl_pct <= EXIT_SOFT_STOP_PCT * 100

\* the lowest-numbered checkpoint whose condition holds, 0 when none does
DecidingCheckpoint(a) ==
    LET holding == {k \in 1..6 : CheckpointHolds(k, a)}
    IN  IF holding = {} THEN 0
        ELSE CHOOSE k \in holding : \A j \in holding : k <= j

\* the checkpoint a returned verdict names, 0 for "no exit, no flag"
CheckpointOf(out) ==
    IF out.exit_reason = "HARD STOP" THEN 1
    ELSE IF out.exit_reason = "PROFIT PROTECTION" THEN 2
    ELSE IF out.exit_reason = "STRONG PROFIT" THEN 3
    ELSE IF out.exit_reason = "MARKET CRASH" THEN 4
    ELSE IF out.exit_reason = "TIME LIMIT" THEN 5
    ELSE IF out.exit_reason = "SOFT STOP WARNING" THEN 6
    ELSE 0

\* the exit type section 4.4 gives checkpoint k at P&L pnl_pct
CheckpointExitType(k, pnl_pct) ==
    IF k \in {1, 4} THEN "cut_loss"
    ELSE IF k \in {2, 3} THEN "take_profit"
    ELSE IF k = 5 THEN (IF pnl_pct < 0 THEN "cut_loss" ELSE "take_profit")
    ELSE NOTEXT

OutcomeIsOf(out, k, pnl_pct) ==
    /\ CheckpointOf(out) = k
    /\ out.should_exit = (k \in 1..5)
    /\ out.skip_llm = (k \in 1..5)
    /\ out.exit_type = CheckpointExitType(k, pnl_pct)

\* C3: for every combination of pnl_pct, peak P&L, hours held, direction and
\* benchmark change, check_mechanical_exits returns the outcome of the
\* lowest-numbered checkpoint among 1-6 whose condition holds, and no exit and
\* no flag when none holds.
C3_LowestCheckpointDecides ==
    (probe.fn = "check_mechanical_exits" /\ probe.done) =>
        /\ ~probe.out.raised
        /\ OutcomeIsOf(probe.out, DecidingCheckpoint(probe.args), probe.args.pnl_pct)

\* C3, on the calls that return: the returned verdict is the one of the
\* lowest-numbered checkpoint whose condition holds.
C3_OrderWhenItReturns ==
    (probe.fn = "check_mechanical_exits" /\ probe.done /\ ~probe.out.raised) =>
        OutcomeIsOf(probe.out, DecidingCheckpoint(probe.args), probe.args.pnl_pct)

----------------------------------------------------------------------------
(* Properties of the lifecycle *)

\* C1: in every reachable state and for every candidate, entry_price is set
\* if and only if the state is ACTIVE or PUBLISH, or the state is KILLED and
\* the candidate was ACTIVE/PUBLISH before it was killed.
C1_EntryPriceIffEntered ==
    \A id \in Ids :
        (candidates[id].entry_price # NULL) <=>
            \/ candidates[id].state \in {"ACTIVE", "PUBLISH"}
            \/ candidates[id].state = "KILLED" /\ id \in entered

\* a candidate killed after it had been entered keeps its entry_price
C1_Witness ==
    \E id \in Ids :
        /\ candidates[id].state = "KILLED"
        /\ id \in entered
        /\ candidates[id].entry_price # NULL
        /\ candidates[id].is_active = 0

C6_KilledIsTerminal ==
    [][\A id \in Ids : candidates[id].state = "KILLED" =>
            candidates'[id].state = "KILLED"]_vars

\* a candidate killed by a review was later deactivated by the expiry pass
\* and is still KILLED
C6_Witness ==
    \E id \in Ids :
        /\ candidates[id].state = "KILLED"
        /\ candidates[id].killed_by \in {"dd", "auto_expire", "monitor", "mechanical"}
        /\ candidates[id].is_active = 0
        /\ candidates[id].killed_at < now

----------------------------------------------------------------------------
(* Properties of one review cycle, read off the state the cycle leaves:     *)
(* last_cycle holds the row as the cycle read it and what its calls         *)
(* returned, candidates holds the row as the cycle left it.                 *)

Before == last_cycle.before
After == candidates[last_cycle.cid]
Word == last_cycle.result.decision

\* a monitor cycle has just run and obtained a quote
MonitorReviewed == last_cycle.op = "monitor" /\ last_cycle.price_data # NULL

\* a monitor cycle has just run and obtained an advisory verdict
VerdictObtained == last_cycle.op = "monitor" /\ last_cycle.result # NoMonitorResult

\* a due-diligence cycle (first pass or re-check) has just decided on the row
DDReviewed == last_cycle.op \in {"dd", "recheck"} /\ last_cycle.ret # "DEFERRED"

PromotionCondition ==
    /\ last_cycle.result.conviction_score >= 7
    /\ Before.signal_velocity \in {"propagating", "mainstream"}

KillCondition ==
    \/ last_cycle.result.conviction_score <= 3
    \/ last_cycle.result.thesis_status = "invalidated"

\* the cascade's verdict on the row and the values the cycle fetched
CascadeVerdict ==
    check_mechanical_exits(Before, last_cycle.price_data,
                           ReviewPnl(Before, last_cycle.price_data),
                           HoursSinceEntry(Before), last_cycle.spy_change)

\* the columns an exit or a kill writes
KillExitColumns(cand) ==
    <<cand.killed_at, cand.kill_reason, cand.killed_by, cand.exit_price,
      cand.exit_reason>>

C7_ConvictionPromotes ==
    (VerdictObtained /\ Before.state = "WATCH" /\ PromotionCondition)
    => /\ After.state = "ACTIVE"
       /\ After.entry_price = last_cycle.price_data
       /\ After.entry_time = now

\* C7 amended: the promotion happens when the decision word is ENTER,
\* TAKE_PROFIT or CUT_LOSS; with HOLD, REDUCE, ESCALATE or KILL the candidate
\* is not promoted.
C7_ConvictionPromotesOnExitWords ==
    (VerdictObtained /\ Before.state = "WATCH" /\ PromotionCondition)
    => /\ Word \in {"ENTER", "TAKE_PROFIT", "CUT_LOSS"} =>
            /\ After.state = "ACTIVE"
            /\ After.entry_price = last_cycle.price_data
            /\ After.entry_time = now
       /\ Word \in {"HOLD", "REDUCE", "ESCALATE", "KILL"} =>
            /\ After.state # "ACTIVE"
            /\ After.entry_price = NULL

\* a TAKE_PROFIT verdict with conviction 7 on a propagating signal has just
\* promoted a WATCH candidate
C7_Witness ==
    /\ VerdictObtained
    /\ Before.state = "WATCH"
    /\ PromotionCondition
    /\ Word = "TAKE_PROFIT"
    /\ After.state = "ACTIVE"
    /\ After.entry_price = last_cycle.price_data
    /\ After.entry_time = now

\* C8 as stated: a WATCH candidate is promoted only in a review where the
\* promotion condition holds; where it fails and the kill condition fails
\* too, the candidate remains in WATCH.
C8_PromotedOnlyOnCondition ==
    (VerdictObtained /\ Before.state = "WATCH")
    => /\ After.state = "ACTIVE" => PromotionCondition
       /\ (~PromotionCondition /\ ~KillCondition) => After.state = "WATCH"

\* C8 amended: a WATCH candidate is promoted only by the decision word ENTER,
\* or by TAKE_PROFIT / CUT_LOSS under the promotion condition; where the
\* promotion and the kill condition both fail, the candidate remains in WATCH
\* unless the decision word is ENTER or KILL.
C8_PromotedOnlyOnEnterOrCondition ==
    (VerdictObtained /\ Before.state = "WATCH")
    => /\ After.state = "ACTIVE" =>
            \/ Word = "ENTER"
            \/ Word \in {"TAKE_PROFIT", "CUT_LOSS"} /\ PromotionCondition
       /\ (~PromotionCondition /\ ~KillCondition /\ Word \notin {"ENTER", "KILL"})
            => After.state = "WATCH"

\* a TAKE_PROFIT verdict under neither condition has just left the candidate
\* in WATCH
C8_Witness ==
    /\ VerdictObtained
    /\ Before.state = "WATCH"
    /\ Word = "TAKE_PROFIT"
    /\ ~PromotionCondition
    /\ ~KillCondition
    /\ After.state = "WATCH"
    /\ After.monitor_count = Before.monitor_count + 1

\* C9 as stated: in a monitor review of a WATCH candidate with a verdict,
\* when the promotion condition fails, conviction <= 3 or an invalidated
\* thesis kills the candidate, whatever the decision word.
C9_LowConvictionKills ==
    (VerdictObtained /\ Before.state = "WATCH" /\ ~PromotionCondition /\ KillCondition)
    => After.state = "KILLED"

\* C9 amended: the kill happens when the decision word is TAKE_PROFIT,
\* CUT_LOSS or KILL; with HOLD, REDUCE or ESCALATE the candidate stays in
\* WATCH and with ENTER it is promoted.
C9_LowConvictionKillsOnExitWords ==
    (VerdictObtained /\ Before.state = "WATCH" /\ ~PromotionCondition /\ KillCondition)
    => /\ Word \in {"TAKE_PROFIT", "CUT_LOSS", "KILL"} =>
            /\ After.state = "KILLED"
            /\ After.killed_by = "monitor"
       /\ Word \in {"HOLD", "REDUCE", "ESCALATE"} => After.state = "WATCH"
       /\ Word = "ENTER" => After.state = "ACTIVE"

\* a CUT_LOSS verdict with conviction 3 has just killed a WATCH candidate
C9_Witness ==
    /\ VerdictObtained
    /\ Before.state = "WATCH"
    /\ Word = "CUT_LOSS"
    /\ last_cycle.result.conviction_score <= 3
    /\ After.state = "KILLED"
    /\ After.killed_by = "monitor"

\* C10: in a monitor review of an ACTIVE/PUBLISH candidate that reaches the
\* advisory step, TAKE_PROFIT or CUT_LOSS transitions the candidate to KILLED
\* with exit_reason take_profit or cut_loss and exit_price the cycle's quote;
\* REDUCE, ESCALATE and HOLD leave state, entry_price and the kill and exit
\* columns unchanged.
C10_AdvisoryExit ==
    (VerdictObtained /\ Before.state \in {"ACTIVE", "PUBLISH"})
    => /\ Word \in {"TAKE_PROFIT", "CUT_LOSS"} =>
            /\ After.state = "KILLED"
            /\ After.exit_reason = (IF Word = "TAKE_PROFIT" THEN "take_profit"
                                    ELSE "cut_loss")
            /\ After.exit_price = last_cycle.price_data
       /\ Word \in {"REDUCE", "ESCALATE", "HOLD"} =>
            /\ After.state = Before.state
            /\ After.entry_price = Before.entry_price
            /\ KillExitColumns(After) = KillExitColumns(Before)

\* a CUT_LOSS verdict has just closed an ACTIVE position
C10_Witness ==
    /\ VerdictObtained
    /\ Before.state = "ACTIVE"
    /\ Word = "CUT_LOSS"
    /\ After.state = "KILLED"
    /\ After.exit_reason = "cut_loss"
    /\ After.exit_price = last_cycle.price_data

\* C11: the soft stop never forces an exit by itself.  When checkpoint 6 is
\* the deciding checkpoint the advisory service is asked, with the warning,
\* and the row changes only as the advisory decision says; the advisory
\* service receives the warning if and only if checkpoint 6 decided.
C11_SoftStopOnlyFlags ==
    MonitorReviewed =>
        /\ (/\ Before.state \in {"ACTIVE", "PUBLISH"}
            /\ ~Falsy(Before.entry_price)
            /\ CheckpointOf(CascadeVerdict) = 6)
           => /\ last_cycle.llm_called
              /\ last_cycle.warning
              /\ After.killed_by # "mechanical"
              /\ After.state = "KILLED" => Word \in {"TAKE_PROFIT", "CUT_LOSS"}
              /\ Word \notin {"TAKE_PROFIT", "CUT_LOSS"} =>
                    /\ After.state = Before.state
                    /\ After.entry_price = Before.entry_price
                    /\ KillExitColumns(After) = KillExitColumns(Before)
        /\ last_cycle.warning <=>
               /\ last_cycle.llm_called
               /\ Before.state \in {"ACTIVE", "PUBLISH"}
               /\ ~Falsy(Before.entry_price)
               /\ CheckpointOf(CascadeVerdict) = 6

\* a review under the soft stop has asked the advisory service, which held
C11_Witness ==
    /\ MonitorReviewed
    /\ Before.state = "ACTIVE"
    /\ CheckpointOf(CascadeVerdict) = 6
    /\ last_cycle.warning
    /\ Word = "HOLD"
    /\ After.state = "ACTIVE"

\* the number of journal entries of a candidate
EntriesOf(journal, id) == Len(SelectSeq(journal, LAMBDA e : e.candidate_id = id))

\* C12: every review cycle that reaches a decision for a candidate, an
\* advisory review or a mechanical exit, appends exactly one journal entry
\* for it and persists last_monitor_at = cycle time, monitor_count + 1 and,
\* from an advisory verdict, current_conviction.
C12_DecisionJournalsAndCounts ==
    [][(last_cycle'.op = "monitor" /\ last_cycle'.ret \notin {"NONE", "ERROR"}) =>
            LET id == last_cycle'.cid
            IN  /\ EntriesOf(trader_journal', id) = EntriesOf(trader_journal, id) + 1
                /\ candidates'[id].last_monitor_at = now'
                /\ candidates'[id].monitor_count = candidates[id].monitor_count + 1
                /\ last_cycle'.result # NoMonitorResult =>
                        candidates'[id].current_conviction =
                            last_cycle'.result.conviction_score]_vars

\* C12 for advisory reviews: one journal entry, last_monitor_at,
\* monitor_count + 1 and current_conviction.
C12_AdvisoryReviewJournalsAndCounts ==
    [][(last_cycle'.op = "monitor" /\ last_cycle'.result # NoMonitorResult) =>
            LET id == last_cycle'.cid
            IN  /\ EntriesOf(trader_journal', id) = EntriesOf(trader_journal, id) + 1
                /\ candidates'[id].last_monitor_at = now'
                /\ candidates'[id].monitor_count = candidates[id].monitor_count + 1
                /\ candidates'[id].current_conviction =
                        last_cycle'.result.conviction_score]_vars

\* C13: after any sequence of review cycles the cycle_numbers of a candidate's
\* journal entries are exactly 1, 2, ..., n in the order they were appended,
\* with no gap and no duplicate.
C13_CycleNumbersConsecutive ==
    \A id \in Ids :
        \A i \in 1..Len(JournalOf(id)) : JournalOf(id)[i].cycle_number = i

\* an advisory review and then a mechanical exit have journalled cycles 1 and 2
C13_Witness ==
    \E id \in Ids :
        /\ Len(JournalOf(id)) = 2
        /\ JournalOf(id)[1].conviction_change = "llm"
        /\ JournalOf(id)[2].conviction_change = "mechanical_exit"
        /\ JournalOf(id)[2].cycle_number = 2

\* the interval the due-for-review policy gives a row: 2h when
\* hours_since_entry < 24 or current_conviction <= 3, otherwise 4h
PolicyInterval(cand) ==
    IF \/ cand.entry_time # NULL /\ now - cand.entry_time < 24
       \/ cand.current_conviction # NULL /\ cand.current_conviction <= 3
    THEN MONITOR_INTENSIVE_INTERVAL
    ELSE MONITOR_STANDARD_INTERVAL

\* C14: in a monitoring pass an eligible candidate (WATCH, ACTIVE or PUBLISH)
\* that has been reviewed before is due for review if and only if the time
\* elapsed since its last_monitor_at is at or above its applicable interval.
C14_DueIffIntervalElapsed ==
    \A id \in Ids :
        (Monitorable(candidates[id]) /\ candidates[id].last_monitor_at # NULL) =>
            (should_monitor(candidates[id]) <=>
                now - candidates[id].last_monitor_at >= PolicyInterval(candidates[id]))

\* C14 for entered positions: an ACTIVE or PUBLISH row reviewed before is due
\* if and only if its interval has elapsed.
C14_DueIffIntervalElapsedOnceEntered ==
    \A id \in Ids :
        (/\ Monitorable(candidates[id])
         /\ candidates[id].last_monitor_at # NULL
         /\ candidates[id].entry_time # NULL) =>
            (should_monitor(candidates[id]) <=>
                now - candidates[id].last_monitor_at >= PolicyInterval(candidates[id]))

----------------------------------------------------------------------------
(* Properties of make_trade_decision *)

DecisionCalled == probe.fn = "make_trade_decision" /\ probe.done

\* an advisory verdict with confidence HIGH is present
HighVerdict(a) == a.llm_result # NoDDResult /\ a.llm_result.confidence = "HIGH"

\* C15 as stated: with a HIGH-confidence verdict present, make_trade_decision
\* returns that verdict's decision and watch_conditions unchanged.
C15_HighVerdictVerbatim ==
    (DecisionCalled /\ HighVerdict(probe.args)) =>
        /\ probe.out.decision = probe.args.llm_result.decision
        /\ probe.out.watch_conditions = probe.args.llm_result.watch_conditions

\* C15 amended: with a HIGH-confidence verdict present, make_trade_decision
\* returns that verdict's decision in upper case and its watch_conditions
\* unchanged; no matrix branch overrides it.
C15_HighVerdictUpperCased ==
    (DecisionCalled /\ HighVerdict(probe.args)) =>
        /\ probe.out.decision = Upper(probe.args.llm_result.decision)
        /\ probe.out.watch_conditions = probe.args.llm_result.watch_conditions
        /\ probe.out.branch = "llm_high"

\* a HIGH verdict "trade" on a decaying, critically stale candidate came back
\* as TRADE with the verdict's watch_conditions
C15_Witness ==
    /\ DecisionCalled
    /\ HighVerdict(probe.args)
    /\ probe.args.llm_result.decision = "trade"
    /\ probe.args.llm_result.watch_conditions = "llm_condition"
    /\ probe.args.edge_quality = "DECAYING"
    /\ probe.args.staleness_hours >= STALENESS_CRITICAL
    /\ probe.out.decision = "TRADE"
    /\ probe.out.watch_conditions = "llm_condition"

\* the decision of the first applicable branch of steps 2-10 of the matrix
MatrixDecision(a) ==
    LET rating == staleness_rating(a.staleness_hours)
        moved == price_moved_pct(a.report_price, a.current_price)
        with_thesis == price_moved_in_thesis_direction(a.report_price, a.current_price,
                                                       a.direction)
    IN  IF a.edge_quality = "DECAYING" /\ rating \in {"STALE", "VERY_STALE", "CRITICAL"}
        THEN "KILL"
        ELSE IF a.edge_quality = "DECAYING" /\ MoveGT(moved, 5) /\ with_thesis
        THEN "KILL"
        ELSE IF MoveGT(moved, 10) /\ with_thesis THEN "KILL"
        ELSE IF MoveGT(moved, 10) /\ ~with_thesis THEN "WATCH"
        ELSE IF rating = "CRITICAL"
        THEN (IF a.confidence >= 65 THEN "WATCH" ELSE "KILL")
        ELSE IF rating = "VERY_STALE"
        THEN (IF (a.confidence >= 55 /\ a.propagation = "IGNITE") \/ a.confidence >= 65
              THEN "WATCH" ELSE "KILL")
        ELSE IF rating = "STALE"
        THEN (IF MoveLT(moved, 2) THEN "TRADE" ELSE "WATCH")
        ELSE IF MoveLT(moved, 10) THEN "TRADE"
        ELSE "WATCH"

FreshUndecided(a) ==
    /\ ~HighVerdict(a)
    /\ staleness_rating(a.staleness_hours) \in {"FRESH", "MODERATE"}

\* the outcome of steps 4 and 5: KILL when the price moved with the thesis,
\* WATCH with a price-recovery condition otherwise
LargeMoveOutcome(a, out) ==
    IF price_moved_in_thesis_direction(a.report_price, a.current_price, a.direction)
    THEN out.decision = "KILL"
    ELSE out.decision = "WATCH" /\ out.watch_conditions = "price_recovery"

\* C17: for a FRESH or MODERATE candidate without a HIGH verdict every price
\* movement >= 10%, a movement of exactly 10% included, is decided by step 4
\* or 5 and never by the default fallback.
C17_LargeMoveNeverDefault ==
    (/\ DecisionCalled
     /\ FreshUndecided(probe.args)
     /\ ~MoveLT(price_moved_pct(probe.args.report_price, probe.args.current_price),
                PRICE_MOVE_LARGE))
    => /\ LargeMoveOutcome(probe.args, probe.out)
       /\ probe.out.branch # "general"

\* C17 for movements above 10%: decided by step 4 or 5.
C17_MoveAboveLargeNeverDefault ==
    (/\ DecisionCalled
     /\ FreshUndecided(probe.args)
     /\ MoveGT(price_moved_pct(probe.args.report_price, probe.args.current_price),
               PRICE_MOVE_LARGE))
    => /\ LargeMoveOutcome(probe.args, probe.out)
       /\ probe.out.branch # "general"

\* fetch_price_av answered None to the cycle that ran last
NullQuote ==
    \/ last_cycle.op = "monitor" /\ last_cycle.price_data = NULL
    \/ /\ last_cycle.op = "dd"
       /\ last_cycle.llm_called
       /\ last_cycle.before.primary_ticker # ""
       /\ last_cycle.price_data = NULL

SkipColumns(cand) ==
    <<cand.state, cand.dd_approved_price, cand.entry_price, cand.watch_checks>>

\* C18: a cycle (due diligence or monitor review) whose price fetch returns
\* null is skipped: state, dd_approved_price, entry_price and watch_checks of
\* the candidate are unchanged.
C18_NullPriceSkipsCycle ==
    NullQuote => SkipColumns(After) = SkipColumns(Before)

\* C18 for monitor reviews: without a quote the review changes nothing.
C18_NullPriceSkipsMonitorReview ==
    (last_cycle.op = "monitor" /\ last_cycle.price_data = NULL)
    => /\ After = Before
       /\ ~last_cycle.llm_called
       /\ last_cycle.ret = "NONE"

\* the advisory call of the last due-diligence cycle failed
DDAdvisoryFailed ==
    /\ last_cycle.op = "dd"
    /\ last_cycle.llm_called
    /\ last_cycle.llm_result = NoDDResult

\* the advisory call of the last monitor review failed
MonitorAdvisoryFailed ==
    /\ last_cycle.op = "monitor"
    /\ last_cycle.llm_called
    /\ last_cycle.result = NoMonitorResult

\* what the last due-diligence cycle handed to make_trade_decision, the
\* verdict left out
DDMatrixArgs ==
    [confidence |-> Before.confidence_pct,
     report_price |-> Before.report_price,
     current_price |-> last_cycle.price_data,
     direction |-> Before.direction,
     llm_result |-> NoDDResult,
     staleness_hours |-> calculate_staleness(Before.published_date, now),
     edge_quality |-> Before.edge_quality,
     propagation |-> Before.propagation]

\* C19: an advisory failure equals no advisory input: due diligence applies
\* the decision the matrix gives with no verdict, and a monitor review in
\* which no checkpoint fired leaves state, entry_price and the kill/exit
\* columns as they were.
C19_AdvisoryFailureIsNoInput ==
    /\ DDAdvisoryFailed =>
          /\ last_cycle.ret = MatrixDecision(DDMatrixArgs)
          /\ After.state = IF last_cycle.ret = "KILL" THEN "KILLED" ELSE "WATCH"
          /\ (last_cycle.ret = "KILL") = (After.killed_by = "dd")
    /\ MonitorAdvisoryFailed =>
          /\ After.state = Before.state
          /\ After.entry_price = Before.entry_price
          /\ KillExitColumns(After) = KillExitColumns(Before)

\* due diligence of a PENDING candidate with a quote and no verdict: TRADE
C19_Witness ==
    /\ DDAdvisoryFailed
    /\ last_cycle.price_data # NULL
    /\ Before.state = "PENDING"
    /\ last_cycle.ret = "TRADE"
    /\ After.state = "WATCH"

\* a monitor review of an entered position whose advisory call failed
C19_MonitorWitness ==
    /\ MonitorAdvisoryFailed
    /\ Before.state = "ACTIVE"
    /\ After = Before

\* the scheduler iteration is over
IterationOver == probe.fn = "run" /\ probe.pc = "done"

\* C20: a failure raised in one candidate's cycle aborts that cycle only:
\* every row a pass selected is still processed and every pass of the
\* iteration (pending due diligence, WATCH re-check, monitoring) still runs.
C20_FailureAbortsOneCycleOnly ==
    (IterationOver /\ probe.raised # {}) =>
        /\ probe.ran = LoopPasses
        /\ probe.selected \subseteq probe.seen

\* C20 for the monitoring pass: a failure in one review leaves the other
\* rows of the pass to be reviewed.
C20_MonitorFailureAbortsOneCycleOnly ==
    IterationOver =>
        /\ "monitor" \in probe.ran
        /\ \A pair \in probe.selected : pair[1] = "monitor" => pair \in probe.seen

\* a review raised and the row after it was still reviewed
C20_MonitorWitness ==
    /\ IterationOver
    /\ <<"monitor", 1>> \in probe.raised
    /\ <<"monitor", 2>> \in probe.seen

\* killed_at and kill_reason are both set
KillColumnsSet(cand) == cand.killed_at # NULL /\ cand.kill_reason # NOTEXT

\* C21: in every reachable state and for every candidate, killed_at and
\* kill_reason are set if and only if the state is KILLED, rows created in
\* KILLED at ingestion included.
C21_KillColumnsIffKilled ==
    \A i \in Ids : KillColumnsSet(candidates[i]) <=> candidates[i].state = "KILLED"

\* C21 for the rows ingested with a ticker: every kill path writes both columns
C21_KillColumnsIffKilledWithTicker ==
    \A i \in Ids : candidates[i].primary_ticker # "" =>
        /\ KillColumnsSet(candidates[i]) <=> candidates[i].state = "KILLED"
        /\ (candidates[i].killed_at = NULL) = (candidates[i].kill_reason = NOTEXT)

\* C22: in every reachable state, every candidate in WATCH has
\* dd_approved_price set, whichever due-diligence decision put it there.
C22_WatchHasApprovedPrice ==
    \A i \in Ids : candidates[i].state = "WATCH" => candidates[i].dd_approved_price # NULL

\* C22 for the decisions TRADE and PUBLISH: the approved price is written
C22_ApprovalSetsApprovedPrice ==
    (last_cycle.op = "dd" /\ last_cycle.ret \in {"TRADE", "PUBLISH"}) =>
        /\ After.state = "WATCH"
        /\ After.dd_approved_price # NULL

ApprovalColumns(cand) == <<cand.dd_approved_price, cand.dd_approved_at>>

\* C23: dd_approved_price and dd_approved_at are written only by the
\* PENDING -> WATCH transition: no step on a candidate already in WATCH
\* (DD re-check, monitor review, tracking) changes them.
C23_ApprovalWrittenOnce ==
    [][\A i \in Ids : candidates[i].state = "WATCH" =>
            ApprovalColumns(candidates'[i]) = ApprovalColumns(candidates[i])]_vars

\* C23 for monitor reviews, tracking and signal scans
C23_ApprovalKeptOutsideDueDiligence ==
    [][last_cycle'.op # "dd" =>
         \A i \in Ids : candidates[i].state = "WATCH" =>
            ApprovalColumns(candidates'[i]) = ApprovalColumns(candidates[i])]_vars

\* the tracking deadline of the row has passed
PastDeadline(cand) == cand.tracking_until <= now

\* C24: every candidate is force-expired at its tracking deadline: after a
\* tracking pass that runs once the deadline has passed its state is EXPIRED
\* unless it was already KILLED, whatever its state was before.
C24_ExpiredAtDeadline ==
    [][TrackPrices =>
         \A i \in Ids : PastDeadline(candidates[i]) =>
            candidates'[i].state = IF candidates[i].state = "KILLED"
                                   THEN "KILLED" ELSE "EXPIRED"]_vars

\* C24 for PENDING and WATCH rows; every row past its deadline is deactivated
C24_WaitingRowsExpiredAtDeadline ==
    [][TrackPrices =>
         \A i \in Ids : PastDeadline(candidates[i]) =>
            /\ candidates'[i].is_active = 0
            /\ candidates[i].state \in {"PENDING", "WATCH"} =>
                    candidates'[i].state = "EXPIRED"]_vars

----------------------------------------------------------------------------
(* Properties of compute_velocity *)

VelocityCalled == probe.fn = "compute_velocity" /\ probe.done

\* the order quiet < stirring < propagating < mainstream
VelocityRank(v) ==
    IF v = "quiet" THEN 0
    ELSE IF v = "stirring" THEN 1
    ELSE IF v = "propagating" THEN 2
    ELSE IF v = "mainstream" THEN 3
    ELSE -1

\* C25: the velocity classifier is monotonic in the hit count: with the same
\* number of major-source hits, more hits never give a lower level.
C25_VelocityMonotonic ==
    VelocityCalled =>
        /\ VelocityRank(probe.out.velocity) >= 0
        /\ VelocityRank(probe.out.velocity) <= VelocityRank(probe.out.velocity_more)

\* two against three articles, none from a major source: the level rises
C25_Witness ==
    /\ VelocityCalled
    /\ probe.args.total = 2 /\ probe.args.more = 3 /\ probe.args.major_count = 0
    /\ probe.out.velocity = "stirring"
    /\ probe.out.velocity_more = "propagating"

\* the level the claim gives for a pair (hits, major-source hits)
ClaimedVelocity(total, major_count) ==
    IF total = 0 THEN "quiet"
    ELSE IF total >= 6 \/ major_count >= 2 THEN "mainstream"
    ELSE IF total \in 3..5 \/ major_count = 1 THEN "propagating"
    ELSE IF total \in 1..2 /\ major_count = 0 THEN "stirring"
    ELSE "none"

\* C26: compute_velocity returns quiet for 0 hits, stirring for 1-2 hits with
\* no major source, propagating for 3-5 hits or exactly one major-source hit
\* (below the mainstream thresholds), mainstream for >= 6 hits or >= 2
\* major-source hits.
C26_VelocityLevels ==
    VelocityCalled =>
        /\ probe.out.velocity = ClaimedVelocity(probe.args.total, probe.args.major_count)
        /\ probe.out.velocity_more = ClaimedVelocity(probe.args.more, probe.args.major_count)

\* two articles, one from a major source: propagating
C26_Witness ==
    /\ VelocityCalled
    /\ probe.args.total = 2 /\ probe.args.major_count = 1
    /\ probe.out.velocity = "propagating"

----------------------------------------------------------------------------
(* Properties of the rule engine *)

\* the rules whose predicate matches the position
Matching(pos) == {i \in 1..Len(RULES) : RuleTest(RULES[i].id, pos)}

\* the result names the earliest-declared matching rule, or no rule at all
\* exactly when none matches
FirstMatchResult(pos, res) ==
    IF Matching(pos) = {}
    THEN res.rule = NoRule /\ res.certainty = "UNCLASSIFIED"
    ELSE /\ res.certainty # "UNCLASSIFIED"
         /\ \E i \in Matching(pos) :
                /\ \A j \in Matching(pos) : i <= j
                /\ res.rule.id = RULES[i].id
                /\ res.rule.action = RULES[i].action
                /\ res.certainty = RULES[i].certainty

\* C27: classify_position is deterministic and first-match: it returns the
\* bucket and action of the earliest-declared matching rule, UNCLASSIFIED
\* with no rule exactly when no predicate matches, and the same result when
\* the same candidate is classified again.
C27_FirstMatchWins ==
    probe.fn = "classify_position" =>
        /\ \A k \in DOMAIN probe.out : FirstMatchResult(probe.args, probe.out[k])
        /\ Len(probe.out) = 2 => probe.out[1] = probe.out[2]

\* a Band-A semiconductor LONG matches R1, R2 and R3 and is classified by R1
C27_Witness ==
    /\ probe.fn = "classify_position"
    /\ Len(probe.out) = 2
    /\ {1, 2, 3} \subseteq Matching(probe.args)
    /\ probe.out[2].rule.id = "R1"

RewriteDone == probe.fn = "main" /\ probe.done

\* the sum of the nonzero realized outcomes of the TRADING_CERTAINTY
\* candidates the rule matched
RECURSIVE CertaintySum(_, _, _)
CertaintySum(positions, rule_id, k) ==
    IF k = 0 THEN 0
    ELSE CertaintySum(positions, rule_id, k - 1)
         + (IF /\ positions[k].certainty_bucket = "TRADING_CERTAINTY"
               /\ positions[k].matched_rule = rule_id
               /\ positions[k].report_pnl # NonePct
            THEN positions[k].report_pnl ELSE 0)

\* C28: validate_rules reports a rule if and only if the sum of the nonzero
\* realized outcomes of the TRADING_CERTAINTY candidates it matched is
\* negative; losing trades in a group with a positive sum are not flagged and
\* candidates of other buckets never contribute.
C28_ViolationIffNegativeSum ==
    RewriteDone =>
        \A i \in 1..Len(RULES) :
            (\E v \in probe.violations : v.rule = RULES[i].id)
            <=> CertaintySum(probe.positions, RULES[i].id, Len(probe.positions)) < 0

\* two winners of +2.0% and a loser of -5.0% under R1: R1 is reported
C28_Witness ==
    /\ RewriteDone
    /\ \E v \in probe.violations :
            v.rule = "R1" /\ v.positions = 3 /\ v.losses = 1 /\ v.total_pnl = -10

\* a losing trade in a group with a positive sum: nothing is reported
C28_ProfitableGroupWitness ==
    /\ RewriteDone
    /\ probe.violations = {}
    /\ \E k \in DOMAIN probe.positions :
            /\ probe.positions[k].matched_rule = "R1"
            /\ probe.positions[k].report_pnl = -50

\* the rule action makes the candidate a trade of the rewritten history
TradeAction(row) == row.rule_action \in {"ALWAYS_TRADE", "TRADE_IF_CONFIRMED"}

\* the portfolio figures over the rows counted as traded, the first k rows
RECURSIVE TradedTotals(_, _)
TradedTotals(positions, k) ==
    IF k = 0 THEN [traded |-> 0, total_pnl |-> 0, wins |-> 0]
    ELSE LET rest == TradedTotals(positions, k - 1)
             row == positions[k]
         IN  IF TradeAction(row)
             THEN [traded |-> rest.traded + 1,
                   total_pnl |-> rest.total_pnl + row.rewritten_pnl,
                   wins |-> rest.wins + (IF row.rewritten_pnl > 0 THEN 1 ELSE 0)]
             ELSE rest

\* traded if and only if the action is ALWAYS_TRADE or TRADE_IF_CONFIRMED;
\* every other candidate has rewritten P&L 0 and adds nothing to the portfolio
TradedIffTradeAction ==
    /\ \A k \in DOMAIN probe.positions :
          LET row == probe.positions[k]
          IN  /\ row.rewritten_traded <=> TradeAction(row)
              /\ ~TradeAction(row) => row.rewritten_pnl = 0
    /\ ~probe.raised =>
            probe.portfolio = TradedTotals(probe.positions, Len(probe.positions))

\* C29: in the rewritten history a candidate is traded if and only if its
\* rule's action is ALWAYS_TRADE or TRADE_IF_CONFIRMED, and then its rewritten
\* P&L equals its realized outcome P&L; every other candidate has rewritten
\* P&L 0 and contributes nothing to the portfolio figures.
C29_RewrittenPnlIsOutcome ==
    RewriteDone =>
        /\ TradedIffTradeAction
        /\ \A k \in DOMAIN probe.positions :
              LET row == probe.positions[k]
              IN  (TradeAction(row) /\ row.report_pnl # NonePct) =>
                        row.rewritten_pnl = row.report_pnl

\* C29 without the cases of a zero outcome: a nonzero outcome is
\* taken over unchanged
C29_NonzeroOutcomeRewritten ==
    RewriteDone =>
        /\ TradedIffTradeAction
        /\ \A k \in DOMAIN probe.positions :
              LET row == probe.positions[k]
              IN  (TradeAction(row) /\ row.report_pnl # NonePct /\ row.report_pnl # 0) =>
                        row.rewritten_pnl = row.report_pnl

----------------------------------------------------------------------------
(* Properties of price_moved_pct *)

\* a price is missing or the reference price is zero
MissingPrice(a) == Falsy(a.report_price) \/ Falsy(a.current_price)

\* two movements are the same percentage
MoveEq(m1, m2) == m1.num * m2.den = m2.num * m1.den

\* the movement of a price that has not moved at all
GenuineZeroMove == price_moved_pct(100, 100)

\* C30: when either price is missing or the reference price is zero, the
\* movement calculator returns a null movement, distinguishable from a
\* genuine 0% movement, and the decision matrix never evaluates the missing
\* price as 'price stable'.
C30_MissingPriceIsNullMovement ==
    (DecisionCalled /\ MissingPrice(probe.args)) =>
        /\ ~MoveEq(price_moved_pct(probe.args.report_price, probe.args.current_price),
                   GenuineZeroMove)
        /\ probe.out.branch \notin {"fresh_stable", "stale_stable"}

\* C30, the soft failure alone: with a price missing the calculator returns
\* the movement 0 and the thesis-direction test is false
C30_MissingPriceIsZeroMovement ==
    (DecisionCalled /\ MissingPrice(probe.args)) =>
        /\ MoveEq(price_moved_pct(probe.args.report_price, probe.args.current_price),
                  GenuineZeroMove)
        /\ ~price_moved_in_thesis_direction(probe.args.report_price,
                                            probe.args.current_price,
                                            probe.args.direction)

----------------------------------------------------------------------------
(* run() of runner.py: the scheduler loop and the shutdown signal.  probe   *)
(* holds the scheduler: the flag 'running', the place in the loop body (pc: *)
(* the loop test, one of the six timed blocks, the sleep loop, or stopped), *)
(* whether the block's subsystem call is in progress, the iterations        *)
(* started, the seconds slept, the blocks the iteration has passed, and     *)
(* where the first signal arrived.                                          *)

MaxIterations == 3
SLEEP_SECONDS == 60

RunBlocks == <<"scan", "track", "dd", "signal", "monitor", "report">>
BlockNames == {RunBlocks[i] : i \in DOMAIN RunBlocks}

\* the statement after a timed block
AfterBlock(pc) ==
    LET i == CHOOSE k \in DOMAIN RunBlocks : RunBlocks[k] = pc
    IN  IF i = Len(RunBlocks) THEN "sleep" ELSE RunBlocks[i + 1]

NoSignal == [iteration |-> NULL, pc |-> "none", phase |-> "none"]

RunState(running, pc, phase, iteration, slept, passed, signalled, outcome) == [fn |-> "scheduler", running |-> running, pc |-> pc, phase |-> phase, iteration |-> iteration, slept |-> slept, passed |-> passed, signalled |-> signalled, outcome |-> outcome]

\* the default disposition of SIGINT: KeyboardInterrupt is raised in the
\* main thread, 'except Exception' does not catch it and run() is left
signal_handler_Default(st) ==
    [st EXCEPT !.pc = "stopped", !.outcome = "interrupted",
               !.signalled = IF st.signalled = NoSignal
                             THEN [iteration |-> st.iteration, pc |-> st.pc, phase |-> st.phase]
                             ELSE @]

\* signal_handler: running = False, and the interrupted code resumes
signal_handler(st) ==
    [st EXCEPT !.running = FALSE,
               !.signalled = IF st.signalled = NoSignal
                             THEN [iteration |-> st.iteration, pc |-> st.pc, phase |-> st.phase]
                             ELSE @]

InitRun ==
    /\ now = StartHour
    /\ candidates = << >>
    /\ trader_journal = << >>
    /\ last_cycle = Idle
    /\ entered = {}
    /\ probe = RunState(TRUE, "test", "idle", 0, 0, {}, NoSignal, "none")

RunUnchanged == UNCHANGED <<now, candidates, trader_journal, last_cycle, entered>>

\* SIGINT or SIGTERM is delivered, at any point of run()
Signal ==
    /\ probe.pc # "stopped"
    /\ probe' = signal_handler(probe)
    /\ RunUnchanged

\* 'while running:' starts the next iteration or leaves the loop
RunTest ==
    /\ probe.pc = "test"
    /\ IF probe.running
       THEN /\ probe.iteration < MaxIterations
            /\ probe' = [probe EXCEPT !.pc = RunBlocks[1], !.iteration = @ + 1,
                                      !.slept = 0, !.passed = {}]
       ELSE probe' = [probe EXCEPT !.pc = "stopped", !.outcome = "stopped"]
    /\ RunUnchanged

\* a timed block whose interval has not elapsed (or, for the market-hours
\* blocks, with the market closed) is passed over
BlockSkip ==
    /\ probe.pc \in BlockNames /\ probe.phase = "idle"
    /\ probe' = [probe EXCEPT !.pc = AfterBlock(probe.pc), !.passed = @ \cup {probe.pc}]
    /\ RunUnchanged

\* a due block calls its subsystem
BlockCall ==
    /\ probe.pc \in BlockNames /\ probe.phase = "idle"
    /\ probe' = [probe EXCEPT !.phase = "calling"]
    /\ RunUnchanged

\* the subsystem call returns, or raises an Exception that the block's
\* 'except Exception' logs; either way the next block follows
BlockEnd ==
    /\ probe.pc \in BlockNames /\ probe.phase = "calling"
    /\ \E how \in {"returned", "raised"} :
         probe' = [probe EXCEPT !.pc = AfterBlock(probe.pc), !.phase = "idle",
                                !.passed = @ \cup {probe.pc}, !.outcome = how]
    /\ RunUnchanged

\* one turn of 'for _ in range(60): if not running: break; time.sleep(1)'
SleepStep ==
    /\ probe.pc = "sleep"
    /\ IF probe.slept < SLEEP_SECONDS /\ probe.running
       THEN probe' = [probe EXCEPT !.slept = @ + 1]
       ELSE probe' = [probe EXCEPT !.pc = "test", !.passed = @ \cup {"sleep"}]
    /\ RunUnchanged

RunStep == RunTest \/ BlockSkip \/ BlockCall \/ BlockEnd \/ SleepStep

NextRun ==
    \/ Signal
    \/ RunTest
    \/ BlockSkip
    \/ BlockCall
    \/ BlockEnd
    \/ SleepStep

\* the interpreter keeps executing run() and every subsystem call ends
SpecRun == InitRun /\ [][NextRun]_vars /\ WF_vars(RunStep)

----------------------------------------------------------------------------
(* Properties of the shutdown *)

\* run() has left its loop
RunStopped == probe.fn = "scheduler" /\ probe.pc = "stopped"

\* run() is left only through the loop test, with no call in progress and
\* the iteration in which the signal arrived gone through to its end
StoppedAfterWholeIteration ==
    RunStopped =>
        /\ probe.outcome = "stopped"
        /\ probe.phase = "idle"
        /\ probe.iteration > 0 => probe.passed = BlockNames \cup {"sleep"}

----------------------------------------------------------------------------
(* An entered position under price tracking and review.  The row is the one *)
(* EnteredRow leaves (entry at 100 at StartHour); the clock stands          *)
(* PeakDelays hours later; probe records the prices that track_prices has   *)
(* recorded for it since entry.                                             *)

PeakDelays == {3, 73}
PeakQuotes == {90, 100, 108}

InitPeak ==
    /\ now \in {StartHour + d : d \in PeakDelays}
    /\ candidates \in {<<EnteredRow(direction, 100, 5)>> : direction \in Directions}
    /\ trader_journal = <<JournalRow(1, 1, "llm")>>
    /\ last_cycle = Idle
    /\ entered = {1}
    /\ probe = [fn |-> "peak", tracked |-> {}]

\* track_prices, remembering the price of each snapshot of an entered row
PeakTrack ==
    \E price_data \in PeakQuotes :
        LET live == deactivate_expired(candidates, now)
            snapped == \E id \in Ids : /\ Tracked(live, id)
                                       /\ live[id].state \in {"ACTIVE", "PUBLISH"}
        IN  /\ candidates' = [id \in Ids |->
                                IF Tracked(live, id)
                                THEN UpdateExtrema(live[id], price_data)
                                ELSE live[id]]
            /\ probe' = [probe EXCEPT !.tracked = IF snapped THEN @ \cup {price_data} ELSE @]
            /\ last_cycle' = Idle
            /\ entered' = History(candidates')
            /\ UNCHANGED <<now, trader_journal>>

NextPeak ==
    \/ PeakTrack
    \/ MonitorPosition

SpecPeak == InitPeak /\ [][NextPeak]_vars

----------------------------------------------------------------------------
(* Properties of the peak P&L *)

\* the peak P&L check_mechanical_exits derives from the row (the review's own
\* P&L when no peak is recorded)
PeakPnl(cand, pnl_pct) ==
    IF Falsy(cand.peak_price) THEN pnl_pct
    ELSE calculate_pnl(cand.entry_price, cand.peak_price, cand.direction)

\* the P&L of the row at the prices tracking has recorded since entry
TrackedPnls(cand) == {calculate_pnl(cand.entry_price, p, cand.direction) : p \in probe.tracked}

\* the row gained at least PROFIT_TAKE at a tracked price and stands at least
\* DRAWDOWN_FROM_PEAK below that at the review's price, above the hard stop
GaveBackProfit(cand, current_price) ==
    /\ ReviewPnl(cand, current_price) > EXIT_HARD_STOP_PCT * 100
    /\ \E best \in TrackedPnls(cand) :
          /\ best >= EXIT_PROFIT_TAKE_PCT * 100
          /\ best - ReviewPnl(cand, current_price) >= EXIT_DRAWDOWN_FROM_PEAK_PCT * 100

\* the review last_cycle records was of an entered row of this direction
PeakReviewed(direction) ==
    /\ probe.fn = "peak"
    /\ last_cycle.op = "monitor"
    /\ last_cycle.price_data # NULL
    /\ last_cycle.before.state = "ACTIVE"
    /\ last_cycle.before.direction = direction

\* the peak P&L is at least the P&L at every tracked price, and a row that
\* gave back its profit is exited by checkpoint 2
PeakProperty(direction) ==
    /\ \A id \in Ids :
          (/\ probe.fn = "peak"
           /\ candidates[id].state = "ACTIVE"
           /\ candidates[id].direction = direction
           /\ ~Falsy(candidates[id].peak_price))
          => \A pnl \in TrackedPnls(candidates[id]) : PeakPnl(candidates[id], pnl) >= pnl
    /\ (PeakReviewed(direction) /\ GaveBackProfit(last_cycle.before, last_cycle.price_data))
          => /\ last_cycle.ret = "TAKE_PROFIT"
             /\ candidates[last_cycle.cid].kill_reason = "PROFIT PROTECTION"

\* C32: the peak P&L that checkpoint 2 compares against PROFIT_TAKE is the
\* best P&L the position reached at any tracked price since entry, for SHORT
\* positions as for LONG ones: it is never lower than the P&L at any price
\* recorded by price tracking since entry, so a SHORT position that gained
\* at least PROFIT_TAKE and then gave back at least DRAWDOWN_FROM_PEAK is
\* exited by checkpoint 2.
C32_PeakIsBestTrackedPnl == PeakProperty("LONG") /\ PeakProperty("SHORT")

\* C32, for LONG positions alone
C32_LongPeakIsBestTrackedPnl == PeakProperty("LONG")

\* a LONG position that gave back its profit has been reviewed
C32_LongWitness ==
    /\ PeakReviewed("LONG")
    /\ GaveBackProfit(last_cycle.before, last_cycle.price_data)

----------------------------------------------------------------------------
(* Properties of the cascade on a row with a recorded peak *)

\* the review last_cycle records was of an entered row with a recorded peak
\* price, of one of these directions
ReviewedWithPeak(directions) ==
    /\ probe.fn = "peak"
    /\ last_cycle.op = "monitor"
    /\ last_cycle.price_data # NULL
    /\ last_cycle.before.state = "ACTIVE"
    /\ ~Falsy(last_cycle.before.entry_price)
    /\ ~Falsy(last_cycle.before.peak_price)
    /\ last_cycle.before.direction \in directions

\* the cascade returned a verdict and the review went on
CascadeReturned(directions) == ReviewedWithPeak(directions) => last_cycle.ret # "ERROR"

\* C33: for an ACTIVE candidate of any direction in LONG, SHORT, MIXED with
\* an entry_price and a recorded peak_price the mechanical exit cascade
\* returns a verdict instead of failing, so the candidate's monitor review
\* proceeds; in particular a MIXED position held beyond TIME_LIMIT_HOURS is
\* exited by checkpoint 5.
C33_CascadeReturnsForAnyDirection ==
    /\ CascadeReturned(Directions)
    /\ (ReviewedWithPeak({"MIXED"}) /\ HoursSinceEntry(last_cycle.before) > EXIT_TIME_LIMIT_HOURS)
          => /\ last_cycle.ret \in {"CUT_LOSS", "TAKE_PROFIT"}
             /\ candidates[last_cycle.cid].kill_reason = "TIME LIMIT"

\* C33, for LONG and SHORT positions: the cascade returns
C33_CascadeReturnsForLongShort == CascadeReturned({"LONG", "SHORT"})

\* a LONG or SHORT position with a recorded peak has been reviewed
C33_LongShortWitness == ReviewedWithPeak({"LONG", "SHORT"})

----------------------------------------------------------------------------
(* One pass of process_pending_candidates over two PENDING rows, with the   *)
(* clock running during the pass: each due diligence makes its network      *)
(* calls and is followed by time.sleep(12), so a pass that starts in the    *)
(* last minutes of the hour before the close reaches its later rows after   *)
(* the close.  probe holds the pass: the market_open flag it computed       *)
(* before its loop, the rows left, and the hour boundaries crossed.         *)

MaxPassTicks == 1
PassStarts == {StartHour + 5, StartHour + 6}      \* Wednesday 20:00 and 21:00 UTC
PassStaleness == {3, 22, 30}

PassRow(staleness, t) == NewCandidate("T", "LONG", 70, "HIGH", "IGNITE", 100, t - staleness, t - 1)

PassState(pc, market_open, todo, ticks) == [fn |-> "pending", pc |-> pc, market_open |-> market_open, todo |-> todo, ticks |-> ticks]

InitPass ==
    /\ now \in PassStarts
    /\ candidates \in {<<PassRow(s1, now), PassRow(s2, now)>> :
                            s1 \in PassStaleness, s2 \in PassStaleness}
    /\ trader_journal = << >>
    /\ last_cycle = Idle
    /\ entered = {}
    /\ probe = PassState("start", FALSE, << >>, 0)

\* the SELECT of the pass and 'market_open = is_market_open(now)'
PassStart ==
    /\ probe.fn = "pending" /\ probe.pc = "start"
    /\ probe' = PassState("loop", is_market_open(now), SortedIds(PendingRows), 0)
    /\ last_cycle' = Idle
    /\ UNCHANGED <<now, candidates, trader_journal, entered>>

\* one turn of 'for p in pending': the row is deferred or due-diligenced
PassRowStep ==
    /\ probe.fn = "pending" /\ probe.pc = "loop" /\ probe.todo # << >>
    /\ LET id == Head(probe.todo)
       IN  \E price_data \in DDQuotes \cup {NULL}, llm_result \in DDResults \cup {NoDDResult} :
            IF /\ ~probe.market_open
               /\ calculate_staleness(candidates[id].published_date, now) < STALENESS_MEDIUM
            THEN /\ last_cycle' = DDCycle("dd", id, candidates[id], "DEFERRED", FALSE,
                                          NULL, NoDDResult)
                 /\ UNCHANGED candidates
            ELSE run_due_diligence(id, price_data, llm_result)
    /\ probe' = [probe EXCEPT !.todo = Tail(@)]
    /\ entered' = History(candidates')
    /\ UNCHANGED <<now, trader_journal>>

\* the clock passes an hour boundary between two turns of the loop
PassTick ==
    /\ probe.fn = "pending" /\ probe.pc = "loop" /\ probe.todo # << >>
    /\ probe.ticks < MaxPassTicks
    /\ now' = now + 1
    /\ probe' = [probe EXCEPT !.ticks = @ + 1]
    /\ last_cycle' = Idle
    /\ UNCHANGED <<candidates, trader_journal, entered>>

\* the pass returns
PassDone ==
    /\ probe.fn = "pending" /\ probe.pc = "loop" /\ probe.todo = << >>
    /\ probe' = [probe EXCEPT !.pc = "done"]
    /\ last_cycle' = Idle
    /\ UNCHANGED <<now, candidates, trader_journal, entered>>

NextPass ==
    \/ PassStart
    \/ PassRowStep
    \/ PassTick
    \/ PassDone

SpecPass == InitPass /\ [][NextPass]_vars

----------------------------------------------------------------------------
(* Properties of the deferral *)

\* the pass has just run due diligence on a row of its list
PassDueDiligenced ==
    /\ probe.fn = "pending"
    /\ last_cycle.op = "dd"
    /\ last_cycle.ret # "DEFERRED"

\* the report of the reviewed row is less than 24 hours old now
FreshNow == calculate_staleness(last_cycle.before.published_date, now) < STALENESS_MEDIUM

\* C34: a PENDING candidate whose report is less than 24 hours old is never
\* due-diligenced while the market is closed: for every candidate in a
\* pending pass, if the market is closed at the moment its due diligence
\* would run and its staleness is below 24h, its state stays PENDING.
C34_FreshNeverReviewedWhileClosed ==
    /\ PassDueDiligenced => (is_market_open(now) \/ ~FreshNow)
    /\ \A id \in Ids :
          (/\ probe.fn = "pending" /\ last_cycle.op = "dd" /\ last_cycle.cid = id
           /\ ~is_market_open(now) /\ FreshNow)
          => candidates[id].state = "PENDING"

\* C34, with the market hours taken when the pass started: a fresh row is
\* due-diligenced only in a pass that found the market open
C34_FreshReviewedOnlyIfOpenAtPassStart ==
    PassDueDiligenced => (probe.market_open \/ ~FreshNow)

\* a fresh row deferred by a pass that started with the market closed
C34_DeferredWitness ==
    /\ probe.fn = "pending"
    /\ last_cycle.op = "dd" /\ last_cycle.ret = "DEFERRED"
    /\ FreshNow /\ ~is_market_open(now)
    /\ candidates[last_cycle.cid].state = "PENDING"

----------------------------------------------------------------------------
(* Properties of the validation run *)

\* C35: when validation finds at least one violating rule the main run
\* reports each violation and, in --validate mode, ends in the 'validation
\* failed' outcome rather than aborting with an internal error; with no
\* violation it ends in 'validation passed'.
C35_ViolationsEndInValidationFailed ==
    RewriteDone =>
        /\ probe.violations # {} => (~probe.raised /\ probe.outcome = "VALIDATION FAILED")
        /\ probe.violations = {} => (~probe.raised /\ probe.outcome = "VALIDATION PASSED")

\* C35, without violations: the run ends in 'validation passed'
C35_NoViolationPasses ==
    (RewriteDone /\ probe.violations = {}) =>
        (~probe.raised /\ probe.outcome = "VALIDATION PASSED")

\* a run over a history with a losing trade and no violating rule
C35_PassedWitness ==
    /\ RewriteDone
    /\ probe.outcome = "VALIDATION PASSED"
    /\ \E k \in DOMAIN probe.positions :
          /\ probe.positions[k].certainty_bucket = "TRADING_CERTAINTY"
          /\ probe.positions[k].report_pnl = -50

----------------------------------------------------------------------------
(* Properties of the lifecycle *)

LifecycleEdges ==
    {<<"PENDING", "WATCH">>, <<"PENDING", "KILLED">>, <<"PENDING", "EXPIRED">>,
     <<"WATCH", "WATCH">>, <<"WATCH", "ACTIVE">>, <<"WATCH", "KILLED">>,
     <<"WATCH", "EXPIRED">>, <<"ACTIVE", "KILLED">>, <<"PUBLISH", "KILLED">>}

\* C36: every lifecycle state change made by any operation follows one of
\* the edges PENDING->WATCH, PENDING->KILLED, PENDING->EXPIRED, WATCH->WATCH,
\* WATCH->ACTIVE, WATCH->KILLED, WATCH->EXPIRED, ACTIVE->KILLED,
\* PUBLISH->KILLED and no other; in particular ACTIVE is entered only from
\* WATCH and nothing leaves KILLED or EXPIRED.
C36_LifecycleEdgesOnly ==
    [][\A id \in Ids :
          candidates'[id].state # candidates[id].state
          => <<candidates[id].state, candidates'[id].state>> \in LifecycleEdges]_vars

\* a row that went from PENDING through WATCH and ACTIVE to KILLED
C36_Witness ==
    \E id \in Ids : /\ candidates[id].state = "KILLED"
                    /\ id \in entered
                    /\ candidates[id].dd_approved_at # NULL

\* C37: no sequence of scan, due-diligence, re-check, monitor, tracking and
\* signal-scan cycles ever puts a candidate into the PUBLISH state: a PUBLISH
\* due-diligence decision leads to WATCH and the only promotion out of WATCH
\* is to ACTIVE, so state = PUBLISH is unreachable from ingestion.
C37_PublishUnreachable == \A id \in Ids : candidates[id].state # "PUBLISH"

\* a PUBLISH due-diligence decision has been applied, and a row was promoted
C37_Witness ==
    /\ last_cycle.op \in {"dd", "recheck"}
    /\ last_cycle.ret = "PUBLISH"
    /\ candidates[last_cycle.cid].state = "WATCH"

\* a row promoted out of WATCH
C37_PromotedWitness ==
    /\ last_cycle.op = "monitor"
    /\ last_cycle.before.state = "WATCH"
    /\ candidates[last_cycle.cid].state = "ACTIVE"

----------------------------------------------------------------------------
(* The scheduler with a fair clock and a fair tracking pass, for progress.  *)
(* The table is empty at StartHour or holds a candidate that has been       *)
(* PENDING for WaitingSince hours (its due diligence deferred or skipped so *)
(* far); reports arrive at StartHour only, so a report can extend that      *)
(* candidate's deadline once.  The clock advances and the tracking pass of  *)
(* run(), which is not tied to market hours, keeps running.                 *)

WaitingSince == 48

InitLive ==
    /\ now = StartHour
    /\ candidates \in {<< >>} \cup
            {<<NewCandidate("T", "LONG", 70, "HIGH", "IGNITE", 100,
                            StartHour - WaitingSince - 3, StartHour - WaitingSince)>>}
    /\ trader_journal = << >>
    /\ last_cycle = Idle
    /\ entered = {}
    /\ probe = NoProbe

\* ingest_report for the reports that arrive at StartHour
LiveIngest == now = StartHour /\ IngestCandidate

NextLive ==
    \/ Tick
    \/ LiveIngest
    \/ ProcessPending
    \/ RecheckWatched
    \/ TrackPrices
    \/ MonitorPosition

SpecLive == InitLive /\ [][NextLive]_vars /\ WF_vars(Tick) /\ WF_vars(TrackPrices)

\* the row waits for a decision
Waiting(id) == id \in Ids /\ candidates[id].state \in {"PENDING", "WATCH"}

\* the row is entered or closed
Settled(id) == id \in Ids /\ candidates[id].state \in {"ACTIVE", "KILLED", "EXPIRED"}

\* C38: every candidate that is PENDING or WATCH eventually reaches ACTIVE,
\* KILLED or EXPIRED, assuming the scheduler keeps running its tracking pass
\* and only finitely many later reports extend the candidate's tracking
\* deadline, whatever the advisory service and the price source return,
\* including permanent failure of both.
C38_WaitingRowsSettle == \A id \in CandIds : Waiting(id) ~> Settled(id)

\* a row that waited until its deadline, extended by a later report, and was
\* expired by the tracking pass
C38_Witness ==
    \E id \in Ids : /\ candidates[id].state = "EXPIRED"
                    /\ candidates[id].discovered_at < StartHour
                    /\ candidates[id].tracking_until = StartHour + TRACKING_WINDOW_HOURS

----------------------------------------------------------------------------
(* The writes of one monitor cycle, statement by statement.  candidates and *)
(* trader_journal are the database as committed; probe holds the cycle: its *)
(* inputs, the statement it is at (pc), and the database as its connection  *)
(* sees it (cands, journal).  get_conn opens a sqlite3 connection with the  *)
(* default isolation level, so the first INSERT or UPDATE opens a           *)
(* transaction that ends at conn.commit(); an exception leaves the function *)
(* with the connection uncommitted, and closing it rolls the writes back.   *)

TxRows ==
    {EnteredRow(direction, 100, 5) : direction \in {"LONG", "SHORT"}}
    \cup {ApplyDDDecision(NewCandidate("T", "LONG", 70, "HIGH", "IGNITE", 100,
                                       StartHour - 3, StartHour),
                          Verdict("TRADE", "fresh"), 100, StartHour)}

\* Faulty variant of Execute: a connection in autocommit mode
Execute_Autocommit(committed, written) == written

\* conn.execute of an INSERT or UPDATE inside the open transaction: what the
\* database file holds afterwards
Execute(committed, written) == committed

InitTx ==
    /\ now = StartHour + 3
    /\ candidates \in {<<row>> : row \in TxRows}
    /\ trader_journal = <<JournalRow(1, 1, "llm")>>
    /\ last_cycle = Idle
    /\ entered = {i \in Ids : candidates[i].state = "ACTIVE"}
    /\ probe = [fn |-> "tx", pc |-> "idle"]

\* the cycle up to its first write: the cascade forces a mechanical exit or
\* the advisory verdict is obtained
TxBegin ==
    /\ probe.fn = "tx" /\ probe.pc = "idle"
    /\ \E price_data \in Prices, spy_change \in SpyData, result \in MonitorResults :
         LET cand == candidates[1]
             cascade == Cascade(cand, price_data, spy_change)
             mechanical == cascade.should_exit /\ cascade.skip_llm
         IN  /\ ~cascade.raised
             /\ probe' = [fn |-> "tx",
                          pc |-> IF mechanical THEN "exit_update" ELSE "journal",
                          kind |-> IF mechanical THEN "exit" ELSE "review",
                          price_data |-> price_data,
                          cascade |-> cascade,
                          result |-> IF mechanical THEN NoMonitorResult ELSE result,
                          decision |-> IF mechanical THEN Upper(cascade.exit_type)
                                       ELSE CycleDecision(cand, result),
                          before |-> [cands |-> candidates, journal |-> trader_journal],
                          cands |-> candidates,
                          journal |-> trader_journal,
                          outcome |-> "open",
                          failed_at |-> "none"]
    /\ UNCHANGED <<now, candidates, trader_journal, last_cycle, entered>>

\* the next statement of the cycle: what the connection sees after it
TxStatement(pc) ==
    LET cand == probe.cands[1]
        cycle_number == _get_next_cycle_number(1)
    IN  IF pc = "journal"
        THEN [cands |-> probe.cands,
              journal |-> Append(probe.journal, JournalRow(1, cycle_number, "llm")),
              next |-> "meta"]
        ELSE IF pc = "meta"
        THEN [cands |-> [probe.cands EXCEPT ![1] =
                            MonitorMeta(cand, probe.result.conviction_score, now)],
              journal |-> probe.journal,
              next |-> "apply"]
        ELSE IF pc = "apply"
        THEN [cands |-> [probe.cands EXCEPT ![1] =
                            ApplyMonitorDecision(cand, probe.decision,
                                                 probe.before.cands[1].state = "WATCH",
                                                 probe.price_data, now)],
              journal |-> probe.journal,
              next |-> "commit"]
        ELSE IF pc = "exit_update"
        THEN [cands |-> [probe.cands EXCEPT ![1] =
                            MechanicalExitRow(cand, probe.price_data,
                                              probe.cascade.exit_type,
                                              probe.cascade.exit_reason, now)],
              journal |-> probe.journal,
              next |-> "exit_journal"]
        ELSE [cands |-> probe.cands,
              journal |-> Append(probe.journal,
                                 JournalRow(1, cycle_number, "mechanical_exit")),
              next |-> "commit"]

TxSteps == {"journal", "meta", "apply", "exit_update", "exit_journal"}

\* one INSERT or UPDATE of the cycle is executed
TxWrite ==
    /\ probe.fn = "tx" /\ probe.pc \in TxSteps
    /\ LET after == TxStatement(probe.pc)
       IN  /\ probe' = [probe EXCEPT !.pc = after.next, !.cands = after.cands,
                                     !.journal = after.journal]
           /\ candidates' = Execute(candidates, after.cands)
           /\ trader_journal' = Execute(trader_journal, after.journal)
    /\ entered' = History(candidates')
    /\ UNCHANGED <<now, last_cycle>>

\* conn.commit()
TxCommit ==
    /\ probe.fn = "tx" /\ probe.pc = "commit"
    /\ candidates' = probe.cands
    /\ trader_journal' = probe.journal
    /\ probe' = [probe EXCEPT !.pc = "done", !.outcome = "committed"]
    /\ entered' = History(candidates')
    /\ UNCHANGED <<now, last_cycle>>

\* a statement or the code between two statements raises: the function is
\* left, the connection is closed uncommitted and its transaction rolled back
TxFail ==
    /\ probe.fn = "tx" /\ probe.pc \in TxSteps \cup {"commit"}
    /\ probe' = [probe EXCEPT !.pc = "done", !.outcome = "failed", !.failed_at = probe.pc,
                              !.cands = candidates, !.journal = trader_journal]
    /\ UNCHANGED <<now, candidates, trader_journal, last_cycle, entered>>

NextTx ==
    \/ TxBegin
    \/ TxWrite
    \/ TxCommit
    \/ TxFail

SpecTx == InitTx /\ [][NextTx]_vars

----------------------------------------------------------------------------
(* Properties of the writes of a cycle *)

TxOpen == probe.fn = "tx" /\ probe.pc # "idle"

\* the database is as the cycle found it
NothingWritten ==
    /\ candidates = probe.before.cands
    /\ trader_journal = probe.before.journal

\* the database holds every write of the cycle: the journal entry, and for a
\* review the metadata and the transition, for a mechanical exit the KILLED
\* update
EverythingWritten ==
    LET cand == probe.before.cands[1]
    IN  /\ Len(trader_journal) = Len(probe.before.journal) + 1
        /\ candidates[1] =
              IF probe.kind = "exit"
              THEN MechanicalExitRow(cand, probe.price_data, probe.cascade.exit_type,
                                     probe.cascade.exit_reason, now)
              ELSE ApplyMonitorDecision(
                       MonitorMeta(cand, probe.result.conviction_score, now),
                       probe.decision, cand.state = "WATCH", probe.price_data, now)

\* C39: the writes of one review cycle are all-or-nothing: in a monitor
\* review the journal entry, the monitoring metadata and the state
\* transition, and in a mechanical exit the KILLED update and its journal
\* entry, are committed together; if the cycle fails at any step before the
\* commit, none of them is persisted.
C39_WritesAllOrNothing ==
    TxOpen =>
        /\ NothingWritten \/ (probe.outcome = "committed" /\ EverythingWritten)
        /\ probe.outcome = "committed" => EverythingWritten
        /\ probe.outcome = "failed" => NothingWritten

\* a review that failed after its journal entry and its metadata were written
C39_Witness ==
    /\ TxOpen
    /\ probe.outcome = "failed"
    /\ probe.failed_at = "apply"
    /\ NothingWritten

\* a mechanical exit that failed between its update and its journal entry
C39_ExitWitness ==
    /\ TxOpen
    /\ probe.outcome = "failed"
    /\ probe.failed_at = "exit_journal"
    /\ NothingWritten

----------------------------------------------------------------------------
(* Properties of the due-diligence block of one iteration *)

\* the pending pass of this iteration ran due diligence on the row
ReviewedAsPending(id) ==
    /\ probe.fn = "run"
    /\ <<"pending", id>> \in probe.seen \ probe.raised

\* the re-check pass of this iteration ran due diligence on the row
ReviewedAsWatched(id) ==
    /\ probe.fn = "run"
    /\ <<"recheck", id>> \in probe.seen \ probe.raised

\* C40: within one due-diligence scheduler cycle (pending pass followed by
\* WATCH re-check pass) each candidate is due-diligenced at most once, so a
\* candidate's watch_checks grows by at most 1 per cycle and a candidate that
\* enters WATCH from PENDING in a cycle is not re-checked again in that same
\* cycle.
C40_OneDueDiligencePerCycle ==
    \A id \in Ids :
        /\ ~(ReviewedAsPending(id) /\ ReviewedAsWatched(id))
        /\ probe.fn = "run" => candidates[id].watch_checks <= 1
        /\ ReviewedAsPending(id) => <<"recheck", id>> \notin probe.selected

\* C40, for one pass: a row that only the re-check pass selected is
\* due-diligenced once
C40_OneDueDiligencePerPass ==
    \A id \in Ids :
        (probe.fn = "run" /\ <<"pending", id>> \notin probe.selected)
        => candidates[id].watch_checks <= 1

\* a WATCH row re-checked once, its watch_checks counted
C40_PassWitness ==
    \E id \in Ids : /\ ReviewedAsWatched(id)
                    /\ <<"pending", id>> \notin probe.selected
                    /\ candidates[id].watch_checks = 1

====
